---- MODULE Spec2Model ----
(***************************************************************************)
(* Readerware backup conversion (Hsql2sqlite.py) and merge of converted   *)
(* databases (mergeBackups.py).                                            *)
(*                                                                         *)
(* Python values are tagged records: None, IntV(n), StrV(chars), BytesV(b).   *)
(* A Python str is a sequence of one-character strings.                    *)
(***************************************************************************)
EXTENDS Integers, Sequences, FiniteSets, TLC

VARIABLES
    \* ---- mergeBackups.py: merge_books ----
    source_dbs,     \* the list of source databases (argument of merge_books)
    target,         \* the target database: lookup tables, BOOKS, merge_source columns
    lookup_maps,    \* cache: table -> (natural key -> target ROWKEY)
    src_lookups,    \* table -> (source ROWKEY -> natural key); survives between sources
    mpc,            \* position of merge_books
    src_i,          \* index of the source being merged
    row_i,          \* index of the next BOOKS row of that source
    inserted,       \* per-source counter printed in the summary
    errors,         \* counter of failed BOOKS inserts
    remapLog,       \* history: every foreign-key resolution that was made
    reverse_lookups, \* table -> (natural key -> source ROWKEYs); created once
    warnings,       \* history: the duplicate-entry warnings printed, per source
    skipped,        \* per-source counter printed as "duplicates skipped"
    committed,      \* what the target file holds: the content last committed
    \* ---- Hsql2sqlite.py: main / processRWbackup ----
    files,              \* the dump files of the batch, in the order main converts them
    file_i,             \* index of the file being converted
    cpc,                \* position of main / processRWbackup
    provenance,         \* module global: the label of the file being converted
    import_time,        \* module global: the time the conversion of the file began
    createLines,        \* module-level io.StringIO: [buf, pos]
    readerwareLines,    \* module-level io.StringIO: [buf, pos]
    otherInsertLines,   \* module-level io.StringIO: [buf, pos]
    sortedInserts,      \* the lines of the StringIO the Row Engine iterates over
    line_i,             \* index of the next line of sortedInserts
    originalRWschema,   \* registry: table -> extracted CREATE statement
    schemas,            \* registry: table -> derived schema
    db,                 \* target database of the current file: table -> rows
    insert_count,       \* READERWARE rows inserted in this run
    error_count,        \* rows that raised in this run
    processed           \* history: the lines the Row Engine has matched, with the
                        \* columns of their table, their tokens and their row

mergeVars == <<source_dbs, target, lookup_maps, src_lookups, mpc, src_i, row_i,
               inserted, errors, remapLog, reverse_lookups, warnings, skipped, committed>>

convVars == <<files, file_i, cpc, provenance, import_time, createLines, readerwareLines, otherInsertLines,
              sortedInserts, line_i, originalRWschema, schemas, db, insert_count,
              error_count, processed>>

vars == <<mergeVars, convVars>>

-----------------------------------------------------------------------------
(* Python values *)

None == [t |-> "none"]
IntV(n) == [t |-> "int", v |-> n]
StrV(s) == [t |-> "str", v |-> s]

\* str.strip() on both ends (whitespace)
IsSpace(c) == c \in {" ", "\t", "\n"}

RECURSIVE LStrip(_)
LStrip(s) == IF s # <<>> /\ IsSpace(Head(s)) THEN LStrip(Tail(s)) ELSE s

RECURSIVE RStrip(_)
RStrip(s) ==
    IF s # <<>> /\ IsSpace(s[Len(s)]) THEN RStrip(SubSeq(s, 1, Len(s) - 1)) ELSE s

Strip(s) == RStrip(LStrip(s))

\* (name or "") for a value read from a text column
OrEmpty(val) == IF val.t = "str" THEN val.v ELSE <<>>

\* dict[k] = v
DictPut(d, k, v) == [x \in (DOMAIN d) \cup {k} |-> IF x = k THEN v ELSE d[x]]

EmptyDict == [x \in {} |-> None]

-----------------------------------------------------------------------------
(* mergeBackups.py *)

Tables == <<"CONTRIBUTOR", "PUBLISHER_LIST", "PUBLICATION_PLACE_LIST",
            "CATEGORY_LIST", "FORMAT_LIST", "LANGUAGE_LIST">>

TableSet == {Tables[i] : i \in 1..Len(Tables)}

FKFields == <<
    <<"AUTHOR", "CONTRIBUTOR">>,
    <<"AUTHOR2", "CONTRIBUTOR">>,
    <<"AUTHOR3", "CONTRIBUTOR">>,
    <<"PUBLISHER", "PUBLISHER_LIST">>,
    <<"PUB_PLACE", "PUBLICATION_PLACE_LIST">>,
    <<"CATEGORY1", "CATEGORY_LIST">>,
    <<"CATEGORY2", "CATEGORY_LIST">>,
    <<"CATEGORY3", "CATEGORY_LIST">>,
    <<"FORMAT", "FORMAT_LIST">>,
    <<"CONTENT_LANGUAGE", "LANGUAGE_LIST">> >>

\* next AUTOINCREMENT key of a table: one more than the largest key
RECURSIVE MaxKey(_)
MaxKey(rows) ==
    IF rows = <<>> THEN 0
    ELSE LET m == MaxKey(Tail(rows))
         IN IF Head(rows).ROWKEY > m THEN Head(rows).ROWKEY ELSE m

\* mutation: the query of the target finds no row
SelectByNameMissing(rows, item) == None

\* SELECT ROWKEY FROM table WHERE NAME/LISTITEM = ? ; fetchone()
RECURSIVE SelectByName(_, _)
SelectByName(rows, item) ==
    IF rows = <<>> THEN None
    ELSE IF Head(rows).name = StrV(item) THEN IntV(Head(rows).ROWKEY)
    ELSE SelectByName(Tail(rows), item)

\* mutation: the existence check finds nothing
BookExistsNever(books, hash) == FALSE

\* SELECT ROWKEY FROM BOOKS WHERE HASH = ? ; a NULL never compares equal
BookExists(books, hash) ==
    /\ hash # None
    /\ \E i \in 1..Len(books) : books[i].HASH = hash

\* mutation: the new key is cached but the row is not written
InsertLookupRowDropped(tgt, table, new) == tgt

\* INSERT INTO table (field, merge_source) VALUES (?,?)
InsertLookupRow(tgt, table, new) == [tgt EXCEPT !.lk[table] = Append(@, new)]

\* get_or_create_lookup(table, listitem); prov is row_dict['PROVENANCE'].
\* st carries the target (tgt) and the cache (maps); the result carries the key.
\* The INSERT names the merge_source column and raises when the table lacks it.
get_or_create_lookup(st, table, listitem, prov) ==
    LET item == Strip(listitem)
        row == SelectByName(st.tgt.lk[table], item)
        rowkey == MaxKey(st.tgt.lk[table]) + 1
        new == [ROWKEY |-> rowkey, name |-> StrV(item), merge_source |-> prov]
    IN  IF item = <<>> THEN [st |-> st, key |-> None]
        ELSE IF item \in DOMAIN st.maps[table]
        THEN [st |-> st, key |-> st.maps[table][item]]
        ELSE IF row # None
        THEN [st |-> [st EXCEPT !.maps[table] = DictPut(@, item, row)], key |-> row]
        ELSE IF ~st.tgt.hasCol[table]
        THEN [st |-> st, key |-> None]
        ELSE [st |-> [st EXCEPT !.tgt = InsertLookupRow(@, table, new),
                                !.maps[table] = DictPut(@, item, IntV(rowkey))],
              key |-> IntV(rowkey)]

\* src_lookups[table].get(old_key, "").strip()
OldName(lookups, table, old_key) ==
    IF old_key.v \in DOMAIN lookups[table] THEN Strip(lookups[table][old_key.v])
    ELSE <<>>

\* step 3a: re-map the foreign keys of one row, fields i..10 in order
RECURSIVE RemapFrom(_, _, _)
RemapFrom(st, lookups, i) ==
    IF i > Len(FKFields) THEN st
    ELSE LET field == FKFields[i][1]
             table == FKFields[i][2]
             old_key == st.row_dict[field]
         IN  IF old_key = None THEN RemapFrom(st, lookups, i + 1)
             ELSE LET old_name == OldName(lookups, table, old_key)
                      r == get_or_create_lookup(st, table, old_name,
                                                st.row_dict["PROVENANCE"])
                      e == [src |-> st.src, table |-> table, key |-> old_key.v,
                            name |-> old_name, new |-> r.key]
                  IN  RemapFrom([r.st EXCEPT !.row_dict[field] = r.key,
                                             !.log = @ \cup {e}],
                                lookups, i + 1)

\* the lookup rows of one source table as (ROWKEY, stripped name) with a name
RECURSIVE LoadTable(_, _)
LoadTable(d, rows) ==
    IF rows = <<>> THEN d
    ELSE LET name == Strip(OrEmpty(Head(rows).name))
         IN  LoadTable(IF name # <<>> THEN DictPut(d, Head(rows).ROWKEY, name) ELSE d,
                       Tail(rows))

-----------------------------------------------------------------------------
(* Hsql2sqlite.py: tokenizer and transformation functions                  *)
(*                                                                         *)
(* Text is a sequence of characters.  A character is a one-character       *)
(* string, or the name of a hex run: a long stretch of hexadecimal digits  *)
(* that encodes a cover image and that the model does not spell out.       *)
(* Bytes are a sequence of [b |-> 0..255] and of the runs of bytes that    *)
(* the hex runs decode to.                                                 *)
(***************************************************************************)

BytesV(b) == [t |-> "bytes", v |-> b]
FloatV(x) == [t |-> "float", v |-> x]

\* hex run: the 2n hexadecimal digits of an image of n bytes; jpeg says whether
\* the image service can decode it; id tells images of one size apart
HexRuns ==
    [c \in {"<300>", "<300b>", "<1200>", "<50000>", "<150000>", "<junk 600>"} |->
        CASE c = "<300>" -> [run |-> 300, id |-> 1, jpeg |-> TRUE]
          [] c = "<300b>" -> [run |-> 300, id |-> 2, jpeg |-> TRUE]
          [] c = "<1200>" -> [run |-> 1200, id |-> 1, jpeg |-> TRUE]
          [] c = "<50000>" -> [run |-> 50000, id |-> 1, jpeg |-> TRUE]
          [] c = "<150000>" -> [run |-> 150000, id |-> 1, jpeg |-> TRUE]
          [] c = "<junk 600>" -> [run |-> 600, id |-> 1, jpeg |-> FALSE]]

IsHexRun(c) == c \in DOMAIN HexRuns

HexDigits == <<"0", "1", "2", "3", "4", "5", "6", "7", "8", "9",
               "A", "B", "C", "D", "E", "F">>
LowerHexDigits == <<"0", "1", "2", "3", "4", "5", "6", "7", "8", "9",
                    "a", "b", "c", "d", "e", "f">>

IsHexDigit(c) == \E i \in 1..16 : c = HexDigits[i] \/ c = LowerHexDigits[i]
HexVal(c) == (CHOOSE i \in 1..16 : c = HexDigits[i] \/ c = LowerHexDigits[i]) - 1

\* a result, or the exception that was raised instead
Ok(v) == [ok |-> TRUE, v |-> v]
Raised == [ok |-> FALSE]

\* binascii.unhexlify: the bytes; it raises on an odd length or a non-hex digit
RECURSIVE Unhexlify(_)
Unhexlify(s) ==
    IF s = <<>> THEN Ok(<<>>)
    ELSE IF IsHexRun(Head(s))
    THEN LET rest == Unhexlify(Tail(s))
         IN  IF ~rest.ok THEN Raised ELSE Ok(<<HexRuns[Head(s)]>> \o rest.v)
    ELSE IF Len(s) < 2 \/ ~IsHexDigit(s[1]) \/ ~IsHexDigit(s[2]) THEN Raised
    ELSE LET rest == Unhexlify(Tail(Tail(s)))
         IN  IF ~rest.ok THEN Raised
             ELSE Ok(<<[b |-> 16 * HexVal(s[1]) + HexVal(s[2])]>> \o rest.v)

\* len() of bytes
RECURSIVE ByteLen(_)
ByteLen(b) ==
    IF b = <<>> THEN 0
    ELSE (IF "run" \in DOMAIN Head(b) THEN Head(b).run ELSE 1) + ByteLen(Tail(b))

\* s.startswith(p)
StartsWith(s, pre) == Len(s) >= Len(pre) /\ SubSeq(s, 1, Len(pre)) = pre

\* s.replace(old, new)
RECURSIVE Replace(_, _, _)
Replace(s, old, new) ==
    IF s = <<>> THEN <<>>
    ELSE IF StartsWith(s, old) THEN new \o Replace(SubSeq(s, Len(old) + 1, Len(s)), old, new)
    ELSE <<Head(s)>> \o Replace(Tail(s), old, new)

Quote == "'"
NullText == <<"N", "U", "L", "L">>

\* "not value or value == 'NULL'"
IsNullToken(value) == value = <<>> \/ value = NullText

\* clean_string
clean_string(value) ==
    IF IsNullToken(value) THEN None
    ELSE StrV(Strip(Replace(value, <<Quote, Quote>>, <<Quote>>)))

Digits == <<"0", "1", "2", "3", "4", "5", "6", "7", "8", "9">>
IsDigit(c) == \E i \in 1..10 : c = Digits[i]
DigitVal(c) == (CHOOSE i \in 1..10 : c = Digits[i]) - 1

RECURSIVE DigitsValue(_, _)
DigitsValue(s, acc) ==
    IF s = <<>> THEN acc ELSE DigitsValue(Tail(s), 10 * acc + DigitVal(Head(s)))

\* int(value): surrounding whitespace and one sign are accepted, else ValueError
ParseInt(value) ==
    LET s == Strip(value)
        signed == s # <<>> /\ Head(s) \in {"-", "+"}
        ds == IF signed THEN Tail(s) ELSE s
    IN  IF ds = <<>> \/ \E i \in 1..Len(ds) : ~IsDigit(ds[i]) THEN Raised
        ELSE IF signed /\ Head(s) = "-" THEN Ok(0 - DigitsValue(ds, 0))
        ELSE Ok(DigitsValue(ds, 0))

\* parse_int: -1 is the NULL of a nullable column
parse_int(value) ==
    IF IsNullToken(value) THEN None
    ELSE LET val == ParseInt(value)
         IN  IF ~val.ok THEN None
             ELSE IF val.v = -1 THEN None ELSE IntV(val.v)

\* parse_int_not_null: -1 is kept
parse_int_not_null(value) ==
    IF IsNullToken(value) THEN IntV(0)
    ELSE LET val == ParseInt(value)
         IN  IF ~val.ok THEN IntV(0) ELSE IntV(val.v)

\* parse_float: float(value) of an integer literal; other text is a ValueError
parse_float(value) ==
    IF IsNullToken(value) THEN None
    ELSE LET val == ParseInt(value)
         IN  IF ~val.ok THEN None ELSE FloatV(val.v)

\* parse_date
parse_date(value) == IF IsNullToken(value) THEN None ELSE StrV(Strip(value))

\* parse_boolean
parse_boolean(value) ==
    IF value = <<"T", "R", "U", "E">> THEN IntV(1)
    ELSE IF value = <<"F", "A", "L", "S", "E">> THEN IntV(0)
    ELSE None

\* parse_blob
parse_blob(value) ==
    IF IsNullToken(value) THEN None
    ELSE LET b == Unhexlify(value)
         IN  IF ~b.ok THEN None ELSE BytesV(b.v)

BookDescription == <<"B", "o", "o", "k", " ", "D", "e", "s", "c", "r", "i", "p", "t",
                     "i", "o", "n", "\n">>

\* clean_product_info
clean_product_info(text) ==
    IF IsNullToken(text) THEN None
    ELSE LET t1 == Replace(text, <<Quote, Quote>>, <<Quote>>)
             t2 == Replace(t1, <<"\\", "u", "0", "0", "0", "a">>, <<"\n">>)
             t3 == IF StartsWith(t2, BookDescription) THEN SubSeq(t2, 18, Len(t2)) ELSE t2
         IN  StrV(Strip(t3))

\* transforms[orig_idx](value), the transformation functions by name
ApplyTransform(fn, value) ==
    CASE fn = "clean_string" -> clean_string(value)
      [] fn = "parse_int" -> parse_int(value)
      [] fn = "parse_int_not_null" -> parse_int_not_null(value)
      [] fn = "parse_float" -> parse_float(value)
      [] fn = "parse_date" -> parse_date(value)
      [] fn = "parse_boolean" -> parse_boolean(value)
      [] fn = "parse_blob" -> parse_blob(value)
      [] fn = "clean_product_info" -> clean_product_info(value)

\* csv.reader([values_str], quotechar="'", doublequote=True): the parser of the
\* csv module.  p is its state: st the state of the automaton, field the
\* field being collected, fields the fields saved so far, raised whether it
\* has raised csv.Error.  CsvStep feeds it one character.
CsvStep(c, p) ==
    LET st == IF p.st = "START_RECORD" /\ c # "\n" THEN "START_FIELD" ELSE p.st
        save(next) == [p EXCEPT !.st = next, !.field = <<>>,
                                !.fields = Append(p.fields, p.field)]
        add(next) == [p EXCEPT !.st = next, !.field = Append(p.field, c)]
        goto(next) == [p EXCEPT !.st = next]
    IN  IF p.raised THEN p
        ELSE CASE st = "START_RECORD" -> goto("EAT_CRNL")
               [] st = "START_FIELD" ->
                    IF c = "\n" THEN save("EAT_CRNL")
                    ELSE IF c = Quote THEN goto("IN_QUOTED_FIELD")
                    ELSE IF c = "," THEN save("START_FIELD")
                    ELSE add("IN_FIELD")
               [] st = "IN_FIELD" ->
                    IF c = "\n" THEN save("EAT_CRNL")
                    ELSE IF c = "," THEN save("START_FIELD")
                    ELSE add("IN_FIELD")
               [] st = "IN_QUOTED_FIELD" ->
                    IF c = Quote THEN goto("QUOTE_IN_QUOTED_FIELD")
                    ELSE add("IN_QUOTED_FIELD")
               [] st = "QUOTE_IN_QUOTED_FIELD" ->
                    IF c = Quote THEN add("IN_QUOTED_FIELD")
                    ELSE IF c = "," THEN save("START_FIELD")
                    ELSE IF c = "\n" THEN save("EAT_CRNL")
                    ELSE add("IN_FIELD")
               [] st = "EAT_CRNL" ->
                    IF c = "\n" THEN p ELSE [p EXCEPT !.raised = TRUE]

\* the parser over the characters lo..hi of s, one after the other
RECURSIVE CsvParse(_, _, _, _)
CsvParse(s, lo, hi, p) ==
    IF lo > hi THEN p
    ELSE IF lo = hi THEN CsvStep(s[lo], p)
    ELSE LET mid == (lo + hi) \div 2
             left == CsvParse(s, lo, mid, p)
         IN  IF left.raised THEN left ELSE CsvParse(s, mid + 1, hi, left)

\* s.split(","): the text cut at every comma
RECURSIVE SplitCommas(_, _, _)
SplitCommas(s, i, field) ==
    IF i > Len(s) THEN <<field>>
    ELSE IF s[i] = "," THEN <<field>> \o SplitCommas(s, i + 1, <<>>)
    ELSE SplitCommas(s, i + 1, Append(field, s[i]))

\* mutation: the value list is cut at every comma, quoted or not
CsvRowSplit(values_str) == Ok(SplitCommas(values_str, 1, <<>>))

\* the one row that "for row in reader" yields for a line: the fields at the
\* end of the line, the field being collected saved as the last one
CsvRow(values_str) ==
    LET p == CsvParse(values_str, 1, Len(values_str),
                      [st |-> "START_RECORD", field |-> <<>>, fields |-> <<>>,
                       raised |-> FALSE])
    IN  IF p.raised THEN Raised
        ELSE IF p.st \in {"START_RECORD", "EAT_CRNL"} THEN Ok(p.fields)
        ELSE Ok(Append(p.fields, p.field))

-----------------------------------------------------------------------------
(* Hsql2sqlite.py: Schema Transformer                                      *)
(*                                                                         *)
(* A column definition is the sequence of its words (col_def.split()), in  *)
(* upper case as HSQLDB writes them.                                       *)
(***************************************************************************)

\* list.index(x): the 0-based index, or it raises ValueError
IndexOf(seq, x) ==
    IF \E i \in 1..Len(seq) : seq[i] = x
    THEN Ok((CHOOSE i \in 1..Len(seq) : seq[i] = x /\ \A j \in 1..(i - 1) : seq[j] # x) - 1)
    ELSE Raised

\* seq[:n]
Take(seq, n) == SubSeq(seq, 1, IF n < Len(seq) THEN n ELSE Len(seq))

\* 'X' in type_upper, for the type words of HSQLDB
TypeHas(type, sub) ==
    CASE sub = "CHAR" -> type \in {"VARCHAR", "VARCHAR_IGNORECASE", "CHAR", "CHARACTER",
                                    "LONGVARCHAR"}
      [] sub = "BIGINT" -> type = "BIGINT"
      [] sub = "INTEGER" -> type = "INTEGER"
      [] sub = "DECIMAL" -> type \in {"DECIMAL", "DECIMAL(12,2)"}
      [] sub = "DATE" -> type = "DATE"
      [] sub = "BOOLEAN" -> type = "BOOLEAN"
      [] sub = "VARBINARY" -> type \in {"VARBINARY", "LONGVARBINARY"}

\* map_to_sqlite_type
map_to_sqlite_type(type) ==
    IF TypeHas(type, "CHAR") THEN "TEXT"
    ELSE IF TypeHas(type, "BIGINT") THEN "INTEGER"
    ELSE IF TypeHas(type, "INTEGER") THEN "INTEGER"
    ELSE IF TypeHas(type, "DECIMAL") THEN "REAL"
    ELSE IF TypeHas(type, "DATE") THEN "TEXT"
    ELSE IF TypeHas(type, "BOOLEAN") THEN "INTEGER"
    ELSE IF TypeHas(type, "VARBINARY") THEN "BLOB"
    ELSE "TEXT"

\* mutation: every integer column gets the nullable transform
get_transform_function_Nullable(type, is_not_null) ==
    IF TypeHas(type, "CHAR") THEN "clean_string"
    ELSE IF TypeHas(type, "BIGINT") \/ TypeHas(type, "INTEGER") THEN "parse_int"
    ELSE IF TypeHas(type, "DECIMAL") THEN "parse_float"
    ELSE IF TypeHas(type, "DATE") THEN "parse_date"
    ELSE IF TypeHas(type, "BOOLEAN") THEN "parse_boolean"
    ELSE IF TypeHas(type, "VARBINARY") THEN "parse_blob"
    ELSE "none"

\* get_transform_function; "none" is the None it returns for an unknown type
get_transform_function(type, is_not_null) ==
    IF TypeHas(type, "CHAR") THEN "clean_string"
    ELSE IF TypeHas(type, "BIGINT") \/ TypeHas(type, "INTEGER")
    THEN (IF ~is_not_null THEN "parse_int" ELSE "parse_int_not_null")
    ELSE IF TypeHas(type, "DECIMAL") THEN "parse_float"
    ELSE IF TypeHas(type, "DATE") THEN "parse_date"
    ELSE IF TypeHas(type, "BOOLEAN") THEN "parse_boolean"
    ELSE IF TypeHas(type, "VARBINARY") THEN "parse_blob"
    ELSE "none"

\* 'A B' in col_def.upper(), for two words
HasWords(col_def, a, b) ==
    \E i \in 1..(Len(col_def) - 1) : col_def[i] = a /\ col_def[i + 1] = b

\* 'IDENTITY' in col_def.upper()
HasIdentity(col_def) ==
    \E i \in 1..Len(col_def) : col_def[i] \in {"IDENTITY", "IDENTITY(START"}

constraint_keywords == {"CONSTRAINT", "PRIMARY", "UNIQUE", "FOREIGN", "CHECK"}

\* the foreign keys appended to the READERWARE table: child column, parent table
ReaderwareForeignKeys ==
    << <<"AUTHOR", "CONTRIBUTOR">>, <<"AUTHOR2", "CONTRIBUTOR">>,
       <<"AUTHOR3", "CONTRIBUTOR">>, <<"FORMAT", "FORMAT_LST">>,
       <<"PUBLISHER", "PUBLISHER_LIST">>, <<"PUB_PLACE", "PUBLICATION_PLACE_LIST">>,
       <<"CONTENT_LANGUAGE", "LANGUAGE_LIST">>, <<"CATEGORY1", "CATEGORY_LIST">>,
       <<"CATEGORY2", "CATEGORY_LIST">>, <<"CATEGORY3", "CATEGORY_LIST">> >>

\* the fixed width of the READERWARE table
TargetWidth == 69

\* lines 402-444: the loop over the column definitions; kept are the values
\* of orig_idx the loop does not skip, in order
ParseColumns(column_defs) ==
    LET kept == SelectSeq([i \in 1..Len(column_defs) |-> i - 1],
                          LAMBDA i : ~(\/ Len(column_defs[i + 1]) < 2
                                       \/ column_defs[i + 1][1] \in constraint_keywords))
        fn(orig_idx) ==
            get_transform_function(column_defs[orig_idx + 1][2],
                                   HasWords(column_defs[orig_idx + 1], "NOT", "NULL"))
        sqlite_col(col_def) ==
            IF HasIdentity(col_def)
            THEN <<col_def[1], "INTEGER", "PRIMARY", "KEY", "AUTOINCREMENT">>
            ELSE IF HasWords(col_def, "PRIMARY", "KEY")
            THEN <<col_def[1], map_to_sqlite_type(col_def[2]), "PRIMARY", "KEY">>
            ELSE IF HasWords(col_def, "NOT", "NULL")
            THEN <<col_def[1], map_to_sqlite_type(col_def[2]), "NOT", "NULL">>
            ELSE <<col_def[1], map_to_sqlite_type(col_def[2])>>
    IN  [all_columns |-> [j \in 1..Len(kept) |-> column_defs[kept[j] + 1][1]],
         sqlite_columns |-> [j \in 1..Len(kept) |-> sqlite_col(column_defs[kept[j] + 1])],
         transforms |-> [orig_idx \in { kept[j] : j \in { x \in 1..Len(kept) :
                                                            fn(kept[x]) # "none" } }
                            |-> fn(orig_idx)]]

\* parse_create_table(table) for the column definitions of the statement:
\* (sqlite_schema, transforms, all_columns, coversIndex); foreign_keys are the
\* FOREIGN KEY clauses at the end of sqlite_schema
parse_create_table(table, column_defs) ==
    LET p == ParseColumns(column_defs)
        plain == [sqlite_columns |-> p.sqlite_columns, transforms |-> p.transforms,
                  all_columns |-> p.all_columns, coversIndex |-> None,
                  foreign_keys |-> <<>>]
        descriptionIndex == IndexOf(p.sqlite_columns, <<"PRODUCT_INFO", "TEXT">>)
        t1 == IF descriptionIndex.ok /\ descriptionIndex.v # 0
              THEN DictPut(p.transforms, descriptionIndex.v, "clean_product_info")
              ELSE p.transforms
        coversIndex == IndexOf(p.sqlite_columns, <<"IMAGE1_DATA", "BLOB">>)
        \* for key in range(len(transforms), 68, -1): transforms.pop(key, None)
        t2 == [k \in { x \in DOMAIN t1 : ~(x >= TargetWidth /\ x <= Cardinality(DOMAIN t1)) }
                 |-> t1[k]]
        cols == Take(p.sqlite_columns, TargetWidth)
                   \o << <<"CONVERTED", "TEXT">>, <<"HASH", "TEXT">>,
                         <<"PROVENANCE", "TEXT">> >>
        t3 == DictPut(DictPut(DictPut(t2, TargetWidth, "clean_string"),
                              TargetWidth + 1, "clean_string"),
                      TargetWidth + 2, "clean_string")
    IN  IF table = "CONTRIBUTOR"
        THEN [plain EXCEPT !.sqlite_columns = Take(@, 3), !.all_columns = Take(@, 3)]
        ELSE IF table # "READERWARE" THEN plain
        ELSE IF ~descriptionIndex.ok THEN plain
        ELSE IF ~coversIndex.ok THEN [plain EXCEPT !.transforms = t1]
        ELSE [sqlite_columns |-> cols,
              transforms |-> t3,
              all_columns |-> [i \in 1..Len(cols) |-> cols[i][1]],
              coversIndex |-> IntV(coversIndex.v),
              foreign_keys |-> ReaderwareForeignKeys]

\* cursor.execute(CREATE TABLE ...) raises when a FOREIGN KEY clause names a
\* column that the table does not have
CreateTableRaises(sch) ==
    \E i \in 1..Len(sch.foreign_keys) :
        \A j \in 1..Len(sch.sqlite_columns) :
            sch.sqlite_columns[j][1] # sch.foreign_keys[i][1]

-----------------------------------------------------------------------------
(* Hsql2sqlite.py: Row Engine                                              *)
(***************************************************************************)

SMALL_COVER == "SMALL_COVER"
LARGE_COVER == "LARGE_COVER"

\* hashlib.sha1(text.encode()).hexdigest(): the digest of a text, taken as
\* collision free
Sha1Hex(text) == StrV(<<"sha1(">> \o text \o <<")">>)

\* the decimal digits of a natural number
RECURSIVE NatStr(_)
NatStr(n) == IF n < 10 THEN <<Digits[n + 1]>> ELSE NatStr(n \div 10) \o <<Digits[(n % 10) + 1]>>

\* str(value) of a transformed value
PyStr(val) ==
    CASE val.t = "str" -> val.v
      [] val.t = "int" -> IF val.v < 0 THEN <<"-">> \o NatStr(0 - val.v) ELSE NatStr(val.v)
      [] val.t = "float" -> (IF val.v < 0 THEN <<"-">> \o NatStr(0 - val.v) ELSE NatStr(val.v))
                               \o <<".", "0">>

\* "sep".join(parts)
RECURSIVE Join(_, _)
Join(parts, sep) ==
    IF parts = <<>> THEN <<>>
    ELSE IF Len(parts) = 1 THEN parts[1]
    ELSE parts[1] \o sep \o Join(Tail(parts), sep)

\* the truth value of a transformed value
Truthy(val) ==
    CASE val.t = "none" -> FALSE
      [] val.t \in {"int", "float"} -> val.v # 0
      [] OTHER -> val.v # <<>>

\* len(value); it raises TypeError for a number
PyLen(val) ==
    CASE val.t = "bytes" -> Ok(ByteLen(val.v))
      [] val.t = "str" -> Ok(Len(val.v))
      [] OTHER -> Raised

\* process_image: the recompressed JPEG, None when the image service fails
process_image(binary_data, target_size) ==
    IF ~Truthy(binary_data) \/ binary_data = StrV(NullText) THEN StrV(NullText)
    ELSE IF /\ binary_data.t = "bytes"
            /\ Len(binary_data.v) = 1
            /\ "run" \in DOMAIN binary_data.v[1]
            /\ binary_data.v[1].jpeg
    THEN BytesV(<<[thumbnail |-> target_size, of |-> binary_data.v[1]]>>)
    ELSE None

\* lines 515-521: every token through the transformation of its position
ApplyTransforms(transforms, row) ==
    [i \in 1..Len(row) |->
        IF (i - 1) \in DOMAIN transforms THEN ApplyTransform(transforms[i - 1], row[i])
        ELSE StrV(row[i])]

\* mutation: the surrogate key is hashed in the place of the title
FIELDS_FOR_HASH_WithKey == <<"ROWKEY", "ISBN", "PAGES">>

FIELDS_FOR_HASH == <<"TITLE", "ISBN", "PAGES">>

\* lines 545-549: hash_parts; it raises when a field has no column or the
\* row no value at the column
HashParts(HASH_FIELDS, readyRow) ==
    LET idx == [k \in 1..3 |-> IndexOf(HASH_FIELDS, FIELDS_FOR_HASH[k])]
    IN  IF \E k \in 1..3 : ~idx[k].ok \/ idx[k].v >= Len(readyRow) THEN Raised
        ELSE Ok([k \in 1..3 |->
                    LET val == readyRow[idx[k].v + 1]
                    IN  IF val = None THEN <<>> ELSE PyStr(val)])

\* lines 562-579: the search for the smallest and the largest image from i on
RECURSIVE CoverSearch(_, _, _)
CoverSearch(images, i, c) ==
    IF i >= Len(images) THEN c
    ELSE IF ~Truthy(images[i + 1]) THEN CoverSearch(images, i + 1, c)
    ELSE LET l == PyLen(images[i + 1])
             c1 == IF l.v > c.max
                   THEN [c EXCEPT !.max = l.v, !.maxImage = images[i + 1], !.maxset = TRUE]
                   ELSE c
             c2 == IF l.v < c.min
                   THEN [c1 EXCEPT !.min = l.v, !.minImage = images[i + 1], !.minset = TRUE]
                   ELSE c1
         IN  IF ~l.ok THEN [c EXCEPT !.raised = TRUE]
             ELSE IF l.v > 4 THEN CoverSearch(images, i + 1, c2)
             ELSE CoverSearch(images, i + 1, c)

\* readyRow[a:b]
Slice(seq, a, b) ==
    SubSeq(seq, a + 1, IF b < Len(seq) THEN b ELSE Len(seq))

\* lines 581-590: the four assignments in order; the first one past the end
\* of the row raises and leaves the rest undone
RECURSIVE AssignFrom(_, _, _, _)
AssignFrom(readyRow, index, vals, k) ==
    IF k > Len(vals) THEN readyRow
    ELSE IF index + k > Len(readyRow) THEN readyRow
    ELSE AssignFrom([readyRow EXCEPT ![index + k] = vals[k]], index, vals, k + 1)

\* the outcome of the Row Engine for one matched line: whether it raised
\* before the INSERT, the values the tokenizer gave, the row as far as it was
\* built, the four image slots and the images handed to process_image
RowResult(raised, tokens, readyRow, images, smallFrom, largeFrom) ==
    [raised |-> raised, tokens |-> tokens, readyRow |-> readyRow,
     images |-> images, smallFrom |-> smallFrom, largeFrom |-> largeFrom]

\* mutation: an image that cannot be recompressed ends the row
AssignCoversAborting(tokens, readyRow, cover_index, images, c) ==
    IF c.raised THEN RowResult(FALSE, tokens, readyRow, images, None, None)
    ELSE IF \/ c.minset /\ process_image(c.minImage, SMALL_COVER) = None
            \/ c.maxset /\ process_image(c.maxImage, LARGE_COVER) = None
    THEN RowResult(TRUE, tokens, readyRow, images,
                   IF c.minset THEN c.minImage ELSE None,
                   IF c.maxset THEN c.maxImage ELSE None)
    ELSE RowResult(FALSE, tokens,
                   AssignFrom(readyRow, cover_index,
                              << IF c.minset THEN process_image(c.minImage, SMALL_COVER)
                                 ELSE None,
                                 IF c.maxset THEN process_image(c.maxImage, LARGE_COVER)
                                 ELSE None,
                                 None, None >>, 1),
                   images,
                   IF c.minset THEN c.minImage ELSE None,
                   IF c.maxset THEN c.maxImage ELSE None)

\* lines 581-592: recompress the two images found and clear the other slots
AssignCovers(tokens, readyRow, cover_index, images, c) ==
    IF c.raised THEN RowResult(FALSE, tokens, readyRow, images, None, None)
    ELSE RowResult(FALSE, tokens,
                   AssignFrom(readyRow, cover_index,
                              << IF c.minset THEN process_image(c.minImage, SMALL_COVER)
                                 ELSE None,
                                 IF c.maxset THEN process_image(c.maxImage, LARGE_COVER)
                                 ELSE None,
                                 None, None >>, 1),
                   images,
                   IF c.minset THEN c.minImage ELSE None,
                   IF c.maxset THEN c.maxImage ELSE None)

\* lines 560-579: the search over the image slots
SearchCovers(tokens, readyRow, cover_index, images) ==
    AssignCovers(tokens, readyRow, cover_index, images,
                 CoverSearch(images, 0,
                             [max |-> 0, maxset |-> FALSE, maxImage |-> None,
                              min |-> 100000, minset |-> FALSE, minImage |-> None,
                              raised |-> FALSE]))

\* lines 557-558: the four image slots; None as the index raises TypeError
SelectCovers(tokens, readyRow, cover_index) ==
    IF cover_index = None THEN RowResult(TRUE, tokens, readyRow, <<>>, None, None)
    ELSE SearchCovers(tokens, readyRow, cover_index.v,
                      Slice(readyRow, cover_index.v, cover_index.v + 4))

\* lines 550-556: the content hash, the row extended by the three
\* bookkeeping values
HashRow(sch, tokens, readyRow, hash_parts, prov, time) ==
    IF ~hash_parts.ok THEN RowResult(TRUE, tokens, readyRow, <<>>, None, None)
    ELSE SelectCovers(tokens,
                      readyRow \o <<StrV(time), Sha1Hex(Join(hash_parts.v, <<"|", "|">>)),
                                    StrV(prov)>>,
                      sch.coversIndex)

\* lines 541-549 for a row of READERWARE cut to the fixed width
ReaderwareRow(sch, tokens, readyRow, prov, time) ==
    HashRow(sch, tokens, readyRow, HashParts(sch.all_columns, readyRow), prov, time)

\* lines 523-525 for the transformed values of a row
ShapeRow(sch, table, tokens, readyRow, prov, time) ==
    IF table = "CONTRIBUTOR"
    THEN RowResult(FALSE, tokens, Take(readyRow, 3), <<>>, None, None)
    ELSE IF table # "READERWARE"
    THEN RowResult(FALSE, tokens, readyRow, <<>>, None, None)
    ELSE ReaderwareRow(sch, tokens, Take(readyRow, TargetWidth), prov, time)

\* lines 515-521 for the row the tokenizer gave
TransformRow(sch, table, row, prov, time) ==
    IF ~row.ok THEN RowResult(TRUE, <<>>, <<>>, <<>>, None, None)
    ELSE ShapeRow(sch, table, row.v, ApplyTransforms(sch.transforms, row.v), prov, time)

\* lines 510-592 for one matched line: the row that reaches the INSERT, or the
\* exception that ends the line
RowEngine(schms, table, values_str, prov, time) ==
    IF table \notin DOMAIN schms THEN RowResult(TRUE, <<>>, <<>>, <<>>, None, None)
    ELSE TransformRow(schms[table], table, CsvRow(values_str), prov, time)

\* mutation: the INSERT takes a row of any length
InsertIntoAnyShape(database, sch, table, readyRow) ==
    LET cols == sch.sqlite_columns
        width == IF Len(readyRow) < Len(cols) THEN Len(readyRow) ELSE Len(cols)
    IN  IF table \notin DOMAIN database THEN Raised
        ELSE IF \E j \in 1..width : HasWords(cols[j], "NOT", "NULL") /\ readyRow[j] = None
        THEN Raised
        ELSE Ok(Append(database[table], readyRow))

\* cursor.execute(INSERT INTO table (columns) VALUES (?, ...), readyRow): the
\* rows of the table afterwards; it raises when the table does not exist, the
\* numbers of values and columns differ, a NOT NULL column gets no value or a
\* primary key is taken.  An INTEGER PRIMARY KEY without a value gets the
\* next key.
InsertInto(database, sch, table, readyRow) ==
    LET cols == sch.sqlite_columns
        rows == database[table]
        isPK(j) == HasWords(cols[j], "PRIMARY", "KEY")
        isRowid(j) == isPK(j) /\ cols[j][2] = "INTEGER"
        keys(j) == { rows[k][j].v : k \in { x \in 1..Len(rows) : rows[x][j].t = "int" } }
        next(j) == IF keys(j) = {} THEN 1
                   ELSE (CHOOSE m \in keys(j) : \A x \in keys(j) : x <= m) + 1
        stored == [j \in 1..Len(readyRow) |->
                     IF isRowid(j) /\ readyRow[j] = None THEN IntV(next(j))
                     ELSE readyRow[j]]
    IN  IF table \notin DOMAIN database THEN Raised
        ELSE IF Len(readyRow) # Len(sch.all_columns) THEN Raised
        ELSE IF \E j \in 1..Len(readyRow) :
                   \/ HasWords(cols[j], "NOT", "NULL") /\ readyRow[j] = None
                   \/ isRowid(j) /\ readyRow[j].t \notin {"none", "int"}
                   \/ isPK(j) /\ readyRow[j] # None
                        /\ \E k \in 1..Len(rows) : rows[k][j] = readyRow[j]
        THEN Raised
        ELSE Ok(Append(rows, stored))

-----------------------------------------------------------------------------
(* the state of the part of the program that a specification does not run *)

EmptyBuffer == [buf |-> <<>>, pos |-> 0]

ConvIdle ==
    /\ files = <<>>
    /\ file_i = 0
    /\ cpc = "idle"
    /\ createLines = EmptyBuffer
    /\ readerwareLines = EmptyBuffer
    /\ otherInsertLines = EmptyBuffer
    /\ sortedInserts = <<>>
    /\ line_i = 0
    /\ originalRWschema = EmptyDict
    /\ schemas = EmptyDict
    /\ db = EmptyDict
    /\ insert_count = 0
    /\ error_count = 0
    /\ processed = <<>>
    /\ provenance = <<"foobar">>
    /\ import_time = <<"now">>

MergeIdle ==
    /\ source_dbs = <<>>
    /\ target = [lk |-> EmptyDict, books |-> <<>>, hasCol |-> EmptyDict]
    /\ lookup_maps = EmptyDict
    /\ src_lookups = EmptyDict
    /\ mpc = "idle"
    /\ src_i = 0
    /\ row_i = 0
    /\ inserted = 0
    /\ errors = 0
    /\ remapLog = {}
    /\ reverse_lookups = EmptyDict
    /\ warnings = {}
    /\ skipped = 0
    /\ committed = [lk |-> target.lk, books |-> target.books]

-----------------------------------------------------------------------------
(* merge_books: inputs *)

MaxSources == 3

NameA == <<"a">>
NameB == <<"b">>
NamePadA == <<" ", "a">>
NameP == <<"p">>

Hash1 == StrV(<<"h", "1">>)
Hash2 == StrV(<<"h", "2">>)

NoLookups == [tb \in TableSet |-> <<>>]

LkRow(k, name) == [ROWKEY |-> k, name |-> name]

\* a BOOKS row; the foreign keys that are not given are NULL
Book(rowkey, author, author2, publisher, hash) ==
    [ROWKEY |-> rowkey, TITLE |-> StrV(<<"t">>), HASH |-> hash,
     PROVENANCE |-> StrV(<<"s">>),
     AUTHOR |-> author, AUTHOR2 |-> author2, AUTHOR3 |-> None,
     PUBLISHER |-> publisher, PUB_PLACE |-> None,
     CATEGORY1 |-> None, CATEGORY2 |-> None, CATEGORY3 |-> None,
     FORMAT |-> None, CONTENT_LANGUAGE |-> None]

LookupChoices ==
    { NoLookups,
      [NoLookups EXCEPT !["CONTRIBUTOR"] = <<LkRow(1, StrV(NameA))>>,
                        !["PUBLISHER_LIST"] = <<LkRow(1, StrV(NameP))>>],
      [NoLookups EXCEPT !["CONTRIBUTOR"] = <<LkRow(1, StrV(NameB)),
                                             LkRow(2, StrV(NamePadA)),
                                             LkRow(3, None)>>] }

BooksChoices ==
    { <<>>,
      <<Book(1, IntV(1), None, IntV(1), Hash1)>>,
      <<Book(1, IntV(2), IntV(1), None, Hash1), Book(2, IntV(3), None, None, Hash1)>>,
      <<Book(1, None, None, None, None), Book(5, IntV(1), None, None, Hash2)>> }

\* a source database; extra_col: its BOOKS table has a column the target's lacks
SourcePool ==
    { [lk |-> l, books |-> b, extra_col |-> FALSE] : l \in LookupChoices, b \in BooksChoices }
    \cup { [lk |-> NoLookups, books |-> <<Book(1, None, None, None, Hash2)>>,
            extra_col |-> TRUE] }

SourceLists == UNION { [1..n -> SourcePool] : n \in 1..MaxSources }

\* which lookup tables of the target have the merge_source column already
HasColChoices ==
    { [tb \in TableSet |-> FALSE],
      [tb \in TableSet |-> tb = "PUBLISHER_LIST"] }

TargetChoices ==
    { [lk |-> NoLookups, books |-> <<>>, hasCol |-> h] : h \in HasColChoices }
    \cup { [lk |-> [NoLookups EXCEPT !["CONTRIBUTOR"] =
                        <<[ROWKEY |-> 4, name |-> StrV(NameA), merge_source |-> None]>>],
            books |-> <<Book(7, IntV(4), None, None, Hash1)>>,
            hasCol |-> [tb \in TableSet |-> FALSE]] }

-----------------------------------------------------------------------------
(* merge_books: the state machine *)

MergeInit ==
    /\ ConvIdle
    /\ source_dbs \in SourceLists
    /\ target \in TargetChoices
    /\ lookup_maps = [tb \in TableSet |-> EmptyDict]
    /\ src_lookups = [tb \in {} |-> EmptyDict]
    /\ mpc = "prepare"
    /\ src_i = 1
    /\ row_i = 1
    /\ inserted = 0
    /\ errors = 0
    /\ remapLog = {}
    /\ reverse_lookups = EmptyDict
    /\ warnings = {}
    /\ skipped = 0
    /\ committed = [lk |-> target.lk, books |-> target.books]

\* step 1: ALTER TABLE ... ADD COLUMN merge_source for each table in order; the
\* first table that has the column already raises OperationalError, which ends
\* the loop (except ...: pass)
RECURSIVE AlterFrom(_, _)
AlterFrom(hasCol, i) ==
    IF i > Len(Tables) THEN hasCol
    ELSE IF hasCol[Tables[i]] THEN hasCol
    ELSE AlterFrom([hasCol EXCEPT ![Tables[i]] = TRUE], i + 1)

PrepareTarget ==
    /\ mpc = "prepare"
    /\ target' = [target EXCEPT !.hasCol = AlterFrom(@, 1)]
    /\ mpc' = "load"
    /\ UNCHANGED <<source_dbs, lookup_maps, src_lookups, src_i, row_i, inserted,
                   errors, remapLog, reverse_lookups, warnings, skipped, committed>>

\* lines 110-121: src_lookups[table][rowkey] = name for the rows of this source,
\* on top of what earlier sources left there
LoadLookups(lookups, src) ==
    [tb \in TableSet |->
        LoadTable(IF tb \in DOMAIN lookups THEN lookups[tb] ELSE EmptyDict, src.lk[tb])]

\* reverse_lookups.setdefault(table, {}).setdefault(name, []).append(rowkey)
AddReverse(rev, tb, name, rowkey) ==
    LET name_map == IF tb \in DOMAIN rev THEN rev[tb] ELSE EmptyDict
        keys == IF name \in DOMAIN name_map THEN name_map[name] ELSE <<>>
    IN  DictPut(rev, tb, DictPut(name_map, name, Append(keys, rowkey)))

\* lines 117-121 for the rows of one table, in order
RECURSIVE ReverseTable(_, _, _)
ReverseTable(rev, tb, rows) ==
    IF rows = <<>> THEN rev
    ELSE LET name == Strip(OrEmpty(Head(rows).name))
         IN  ReverseTable(IF name # <<>> THEN AddReverse(rev, tb, name, Head(rows).ROWKEY)
                          ELSE rev,
                          tb, Tail(rows))

\* lines 110-121: the tables i..6 of one source, on top of what is there
RECURSIVE LoadReverse(_, _, _)
LoadReverse(rev, src, i) ==
    IF i > Len(Tables) THEN rev
    ELSE LoadReverse(ReverseTable(rev, Tables[i], src.lk[Tables[i]]), src, i + 1)

\* lines 123-126: one warning for each name that has more than one key
DuplicateWarnings(rev, src) ==
    UNION { { [src |-> src, table |-> tb, name |-> n] :
                n \in { x \in DOMAIN rev[tb] : Len(rev[tb][x]) > 1 } } :
            tb \in DOMAIN rev }

\* a table that merge_books reads is missing from the source database
Missing(src) == "missing" \in DOMAIN src /\ src.missing

LoadSource ==
    /\ mpc = "load"
    /\ ~Missing(source_dbs[src_i])
    /\ src_lookups' = LoadLookups(src_lookups, source_dbs[src_i])
    /\ inserted' = 0
    /\ row_i' = 1
    /\ mpc' = "rows"
    /\ reverse_lookups' = LoadReverse(reverse_lookups, source_dbs[src_i], 1)
    /\ warnings' = warnings \cup DuplicateWarnings(reverse_lookups', src_i)
    /\ skipped' = 0
    /\ UNCHANGED <<source_dbs, target, lookup_maps, src_i, errors, remapLog, committed>>

\* INSERT INTO BOOKS (cols) VALUES (...) raises when a named column is missing
InsertRaises(src) == src.extra_col

\* mutation: the row is inserted with the ROWKEY it had in the source
NewBookRowKeepingKey(row_dict, books) == row_dict

\* row_dict['ROWKEY'] = None; INSERT INTO BOOKS: the target assigns the key
NewBookRow(row_dict, books) == [row_dict EXCEPT !.ROWKEY = MaxKey(books) + 1]

\* one iteration of "for row in sc": re-map, de-duplicate, insert
MergeRow ==
    /\ mpc = "rows"
    /\ row_i <= Len(source_dbs[src_i].books)
    /\ LET row == source_dbs[src_i].books[row_i]
           st0 == [tgt |-> target, maps |-> lookup_maps, row_dict |-> row,
                   log |-> remapLog, src |-> src_i]
           st1 == RemapFrom(st0, src_lookups, 1)
           newrow == NewBookRow(st1.row_dict, st1.tgt.books)
       IN  /\ lookup_maps' = st1.maps
           /\ remapLog' = st1.log
           /\ IF BookExists(st1.tgt.books, st1.row_dict.HASH)
              THEN /\ target' = st1.tgt
                   /\ UNCHANGED <<inserted, errors>>
              ELSE IF InsertRaises(source_dbs[src_i])
              THEN /\ target' = st1.tgt
                   /\ errors' = errors + 1
                   /\ inserted' = inserted + 1
              ELSE /\ target' = [st1.tgt EXCEPT !.books = Append(@, newrow)]
                   /\ inserted' = inserted + 1
                   /\ UNCHANGED errors
    /\ row_i' = row_i + 1
    /\ UNCHANGED <<source_dbs, src_lookups, mpc, src_i, reverse_lookups, warnings,
                   skipped, committed>>

\* src.close() and the summary line; then the next source or the final commit
CloseSource ==
    /\ mpc = "rows"
    /\ row_i > Len(source_dbs[src_i].books)
    /\ IF src_i < Len(source_dbs)
       THEN src_i' = src_i + 1 /\ mpc' = "load"
       ELSE src_i' = src_i /\ mpc' = "commit"
    /\ UNCHANGED <<source_dbs, target, lookup_maps, src_lookups, row_i, inserted,
                   errors, remapLog, reverse_lookups, warnings, skipped, committed>>

CommitTarget ==
    /\ mpc = "commit"
    /\ mpc' = "done"
    /\ committed' = [lk |-> target.lk, books |-> target.books]
    /\ UNCHANGED <<source_dbs, target, lookup_maps, src_lookups, src_i, row_i,
                   inserted, errors, remapLog, reverse_lookups, warnings, skipped>>

\* sc.execute raises on the missing table, outside every try: the exception
\* leaves merge_books and ends the process; what was inserted since the last
\* commit is rolled back when the connection is dropped
SourceRaises ==
    /\ mpc = "load"
    /\ Missing(source_dbs[src_i])
    /\ mpc' = "crashed"
    /\ target' = [target EXCEPT !.lk = committed.lk, !.books = committed.books]
    /\ UNCHANGED <<source_dbs, lookup_maps, src_lookups, src_i, row_i, inserted,
                   errors, remapLog, reverse_lookups, warnings, skipped, committed>>

MergeNext ==
    /\ \/ PrepareTarget
       \/ LoadSource
       \/ MergeRow
       \/ CloseSource
       \/ CommitTarget
    /\ UNCHANGED convVars

SpecMerge == MergeInit /\ [][MergeNext]_vars

-----------------------------------------------------------------------------
(* merge_books: properties *)

\* the sources that have been merged completely
MergedSources ==
    IF mpc \in {"commit", "done"} THEN 1..Len(source_dbs)
    ELSE IF mpc = "prepare" THEN {}
    ELSE 1..(src_i - 1)

\* the source being merged is a database that was merged completely before
IsSecondMerge == \E j \in MergedSources : source_dbs[j] = source_dbs[src_i]

HasName(rows, name) == \E i \in 1..Len(rows) : rows[i].name = StrV(name)

\* C2: merging a source database a second time inserts no BOOKS row and no row
\* in any of the six lookup tables.
MergeIdempotent ==
    [][(mpc = "rows" /\ IsSecondMerge) =>
         (target'.books = target.books /\ target'.lk = target.lk)]_vars

\* C3: the target BOOKS table never holds two rows with the same ContentHash.
OneRowPerContentHash ==
    \A i, j \in 1..Len(target.books) :
        (i # j /\ target.books[i].HASH # None)
            => target.books[i].HASH # target.books[j].HASH

\* a row whose hash was in the target already has been processed: a second row
\* with the same hash inside one source, and the target holds that hash
DuplicateHashSkipped ==
    /\ mpc = "done"
    /\ \E s \in 1..Len(source_dbs) :
         \E i, j \in 1..Len(source_dbs[s].books) :
            /\ i < j
            /\ source_dbs[s].books[i].HASH # None
            /\ source_dbs[s].books[i].HASH = source_dbs[s].books[j].HASH
            /\ \E k \in 1..Len(target.books) :
                  target.books[k].HASH = source_dbs[s].books[i].HASH

\* C4: a foreign key is resolved to a natural key only through the lookup table
\* of the source database the row was read from.
RemapUsesOwnLookups ==
    \A e \in remapLog :
        e.name # <<>> =>
            \E i \in 1..Len(source_dbs[e.src].lk[e.table]) :
                LET r == source_dbs[e.src].lk[e.table][i]
                IN  r.ROWKEY = e.key /\ Strip(OrEmpty(r.name)) = e.name

OwnName(src, table, key) ==
    IF \E i \in 1..Len(src.lk[table]) : src.lk[table][i].ROWKEY = key.v
    THEN LET i == CHOOSE i \in 1..Len(src.lk[table]) : src.lk[table][i].ROWKEY = key.v
         IN  Strip(OrEmpty(src.lk[table][i].name))
    ELSE <<>>

-----------------------------------------------------------------------------
(* Hsql2sqlite.py: the dump files                                          *)
(*                                                                         *)
(* A dump file is a sequence of lines.  A line is                          *)
(*   kind  "rw"     it starts with "INSERT INTO READERWARE VALUES"         *)
(*         "other"  it starts with "INSERT INTO" (another table)           *)
(*         "create" it starts with "CREATE CACHED"                         *)
(*         "noise"  anything else                                          *)
(*   table the table the statement names                                   *)
(*   body  what stands between the parentheses of the statement, in one or *)
(*         more pieces: the value list of an INSERT as characters, the     *)
(*         column definitions of a CREATE                                  *)
(*   nl    whether it ends with a newline (the last line of a file may not)*)
(* In the buffers of the program the text of a line is a sequence of cells *)
(* [f, l, o]: piece o of line l of file f.  Cell 0 is the newline, cell 1  *)
(* the head of the statement up to its opening parenthesis, the last cell  *)
(* its closing parenthesis, the cells between the pieces of the body.      *)
(***************************************************************************)

MaxFiles == 2
MaxLines == 3

Line(kind, table, body, nl) == [kind |-> kind, table |-> table, body |-> body, nl |-> nl]

LineLen(line) == Len(line.body) + 2

\* a value of a row as HSQLDB holds it: NULL, a number (its digits), a string,
\* a binary (its hexadecimal digits)
SNull == [k |-> "null"]
SInt(n) == [k |-> "int", v |-> IF n < 0 THEN <<"-">> \o NatStr(0 - n) ELSE NatStr(n)]
SText(s) == [k |-> "text", v |-> s]
SBinary(hex) == [k |-> "binary", v |-> hex]
SHexLiteral(hex) == [k |-> "hexliteral", v |-> hex]

\* the text HSQLDB writes for a value: NULL, the digits of a number, a string
\* between single quotes with its single quotes doubled, the hexadecimal
\* digits of a binary between single quotes, a hexadecimal literal X'..'
Render(val) ==
    CASE val.k = "null" -> NullText
      [] val.k = "int" -> val.v
      [] val.k = "text" -> <<Quote>> \o Replace(val.v, <<Quote>>, <<Quote, Quote>>) \o <<Quote>>
      [] val.k = "binary" -> <<Quote>> \o val.v \o <<Quote>>
      [] val.k = "hexliteral" -> <<"X", Quote>> \o val.v \o <<Quote>>

\* the value list of a row
ValueList(vals) == Join([i \in 1..Len(vals) |-> Render(vals[i])], <<",">>)

\* the columns of the READERWARE table of a dump: the ones the program names,
\* and these among the columns of Readerware, the four images at 65..68
CompactColumns ==
    <<"ROWKEY", "TITLE", "AUTHOR", "AUTHOR2", "AUTHOR3", "PUBLISHER", "PUB_PLACE",
      "PAGES", "CONTENT_LANGUAGE", "ISBN", "FORMAT", "CATEGORY1", "CATEGORY2",
      "CATEGORY3", "PRODUCT_INFO", "IMAGE1_DATA", "IMAGE2_DATA", "IMAGE1_LARGE_DATA",
      "IMAGE2_LARGE_DATA">>

WideColumns ==
    <<"ROWKEY", "TITLE", "ALT_TITLE", "SUBTITLE", "AUTHOR", "AUTHOR2",
      "AUTHOR3", "AUTHOR4", "AUTHOR5", "AUTHOR6", "ILLUSTRATOR",
      "TRANSLATOR", "EDITOR", "PUBLISHER", "PUB_PLACE", "RELEASE_DATE",
      "COPYRIGHT_DATE", "PAGES", "EDITION", "CONTENT_LANGUAGE", "SIGNED",
      "DIMENSIONS", "READING_LEVEL", "LEXILE_LEVEL", "COPIES", "BARCODE",
      "ISBN", "ISSN", "LCCN", "DEWEY", "CALL_NUMBER", "USER_NUMBER", "TYPE",
      "FORMAT", "SERIES", "SERIES_NUMBER", "MY_RATING", "ITEM_CONDITION",
      "COVER_CONDITION", "CATEGORY1", "CATEGORY2", "CATEGORY3", "LOCATION",
      "KEYWORDS", "READ_COUNT", "DATE_LAST_READ", "PRODUCT_INFO",
      "MY_COMMENTS", "DATE_ENTERED", "DATE_LAST_UPDATED", "SOURCE",
      "PURCHASE_PRICE", "PURCHASE_DATE", "PURCHASE_PLACE", "LIST_PRICE",
      "ITEM_VALUE", "VALUATION_DATE", "CURRENCY_SYMBOL", "FAVORITE",
      "OUT_OF_PRINT", "MEDIA_URL", "OWNER", "STATUS", "EXTERNAL_ID",
      "INVENTORY", "IMAGE1_DATA", "IMAGE2_DATA", "IMAGE1_LARGE_DATA",
      "IMAGE2_LARGE_DATA", "IN_LAST_BATCH", "AM_ASIN", "SALE_PRICE">>

IntegerColumns ==
    {"ROWKEY", "AUTHOR", "AUTHOR2", "AUTHOR3", "AUTHOR4", "AUTHOR5",
     "AUTHOR6", "ILLUSTRATOR", "TRANSLATOR", "EDITOR", "PUBLISHER",
     "PUB_PLACE", "PAGES", "EDITION", "CONTENT_LANGUAGE", "SIGNED",
     "READING_LEVEL", "COPIES", "TYPE", "FORMAT", "SERIES", "SERIES_NUMBER",
     "MY_RATING", "ITEM_CONDITION", "COVER_CONDITION", "CATEGORY1",
     "CATEGORY2", "CATEGORY3", "LOCATION", "READ_COUNT", "SOURCE",
     "PURCHASE_PLACE", "FAVORITE", "OUT_OF_PRINT", "OWNER", "STATUS",
     "INVENTORY", "IN_LAST_BATCH"}

BinaryColumns == {"IMAGE1_DATA", "IMAGE2_DATA", "IMAGE1_LARGE_DATA", "IMAGE2_LARGE_DATA"}

\* the column definition of HSQLDB for a column of READERWARE
ColumnDef(name) ==
    IF name = "ROWKEY"
    THEN <<"ROWKEY", "INTEGER", "GENERATED", "BY", "DEFAULT", "AS", "IDENTITY(START",
           "WITH", "0)", "NOT", "NULL", "PRIMARY", "KEY">>
    ELSE IF name = "TITLE" THEN <<"TITLE", "VARCHAR_IGNORECASE", "NOT", "NULL">>
    ELSE IF name \in IntegerColumns THEN <<name, "INTEGER">>
    ELSE IF name \in BinaryColumns THEN <<name, "VARBINARY">>
    ELSE <<name, "VARCHAR_IGNORECASE">>

ReaderwareCreate(columns) ==
    Line("create", "READERWARE", << [i \in 1..Len(columns) |-> ColumnDef(columns[i])] >>, TRUE)

\* the row of READERWARE with the values vals for the columns it names and
\* NULL for the others
ReaderwareInsert(columns, vals) ==
    Line("rw", "READERWARE",
         << ValueList([i \in 1..Len(columns) |->
                         IF columns[i] \in DOMAIN vals THEN vals[columns[i]] ELSE SNull]) >>,
         TRUE)

ContributorCreate ==
    Line("create", "CONTRIBUTOR",
         << << <<"ROWKEY", "INTEGER", "GENERATED", "BY", "DEFAULT", "AS", "IDENTITY(START",
                 "WITH", "0)", "NOT", "NULL", "PRIMARY", "KEY">>,
               <<"NAME", "VARCHAR_IGNORECASE", "NOT", "NULL">>,
               <<"SORT_NAME", "VARCHAR_IGNORECASE">>,
               <<"ROLE1", "INTEGER">>,
               <<"CONSTRAINT", "SYS_CT_47", "UNIQUE(NAME)">> >> >>, TRUE)

\* a row of CONTRIBUTOR, its value list in two pieces
ContributorInsert ==
    Line("other", "CONTRIBUTOR",
         << ValueList(<<SInt(1), SText(<<"H", "e", "r", "b", "e", "r", "t", ",", " ", "F">>), SText(<<"H", "e", "r", "b", "e", "r", "t">>)>>), <<",">> \o Render(SNull) >>,
         TRUE)

Dune == <<"D", "u", "n", "e">>
Isbn1 == <<"9", "7", "8">>

Noise == Line("noise", "", <<>>, TRUE)

\* the same file without the newline at its end
Unterminated(lines) ==
    [i \in 1..Len(lines) |-> IF i = Len(lines) THEN [lines[i] EXCEPT !.nl = FALSE]
                             ELSE lines[i]]

LineText(f, l, line) ==
    [o \in 1..LineLen(line) |-> [f |-> f, l |-> l, o |-> o]]
        \o (IF line.nl THEN << [f |-> f, l |-> l, o |-> 0] >> ELSE <<>>)

LineOf(c) == files[c.f].lines[c.l]

\* io.StringIO.write at the current position: it overwrites what is there
Write(io, text) ==
    [buf |-> SubSeq(io.buf, 1, io.pos) \o text
                \o SubSeq(io.buf, io.pos + Len(text) + 1, Len(io.buf)),
     pos |-> io.pos + Len(text)]

\* io.StringIO.seek(0)
Seek0(io) == [io EXCEPT !.pos = 0]

\* io.StringIO.read(): from the position to the end
ReadAll(io) == SubSeq(io.buf, io.pos + 1, Len(io.buf))

\* lines 632-640: the three-way split of the lines l.. of file f
RECURSIVE Classify(_, _, _)
Classify(b, f, l) ==
    IF l > Len(files[f].lines) THEN b
    ELSE LET line == files[f].lines[l]
             text == LineText(f, l, line)
         IN  Classify(
                IF line.kind = "rw" THEN [b EXCEPT !.rw = Write(@, text)]
                ELSE IF line.kind = "other" THEN [b EXCEPT !.other = Write(@, text)]
                ELSE IF line.kind = "create" THEN [b EXCEPT !.create = Write(@, text)]
                ELSE b,
                f, l + 1)

\* mutation: the main-entity lines come first
SortedTextSwapped(other, rw) == rw.buf \o other.buf

\* line 659: otherInsertLines.getvalue() + readerwareLines.getvalue()
SortedText(other, rw) == other.buf \o rw.buf

\* iterating an io.StringIO: the text cut after every newline
SplitLines(text) ==
    LET ends == SelectSeq([k \in 1..Len(text) |-> k],
                          LAMBDA k : text[k].o = 0 \/ k = Len(text))
    IN  [i \in 1..Len(ends) |->
            SubSeq(text, IF i = 1 THEN 1 ELSE ends[i - 1] + 1, ends[i])]

IsInsertOpen(c) == c.o = 1 /\ LineOf(c).kind \in {"rw", "other"}
IsInsertClose(c) == c.o # 0 /\ c.o = LineLen(LineOf(c)) /\ LineOf(c).kind \in {"rw", "other"}
IsCreateOpen(c) == c.o = 1 /\ LineOf(c).kind = "create"
IsCreateClose(c) == c.o # 0 /\ c.o = LineLen(LineOf(c)) /\ LineOf(c).kind = "create"
IsBody(c) == c.o > 1 /\ c.o < LineLen(LineOf(c))

\* insert_pattern.match(line): INSERT INTO\s+(\w+)\s+VALUES\((.*)\) at the start
InsertMatch(bl) ==
    /\ bl # <<>>
    /\ IsInsertOpen(bl[1])
    /\ \E k \in 2..Len(bl) : IsInsertClose(bl[k])

\* match.group(1)
MatchTable(bl) == LineOf(bl[1]).table

\* the characters of a cell of an INSERT line
CellText(c) ==
    IF c.o = 0 THEN <<"\n">>
    ELSE IF c.o = 1 THEN <<"INSERT INTO ", LineOf(c).table, " VALUES(">>
    ELSE IF IsBody(c) THEN LineOf(c).body[c.o - 1]
    ELSE <<")">>

RECURSIVE CellsText(_)
CellsText(cells) ==
    IF cells = <<>> THEN <<>>
    ELSE IF Len(cells) = 1 THEN CellText(cells[1])
    ELSE CellsText(SubSeq(cells, 1, Len(cells) \div 2))
            \o CellsText(SubSeq(cells, Len(cells) \div 2 + 1, Len(cells)))

\* match.group(2): all that stands between the first opening parenthesis and
\* the last closing one of the line
ValuesStr(bl) ==
    LET last == CHOOSE k \in 2..Len(bl) :
                    IsInsertClose(bl[k]) /\ \A j \in (k + 1)..Len(bl) : ~IsInsertClose(bl[j])
    IN  CellsText(SubSeq(bl, 2, last - 1))

\* getOriginalReaderwareHSQLDBschemas: the statements of content from pos on
RECURSIVE ExtractSchemas(_, _, _)
ExtractSchemas(content, pos, reg) ==
    LET opens == { k \in pos..Len(content) : IsCreateOpen(content[k]) }
        start == CHOOSE k \in opens : \A j \in opens : k <= j
        closes == { k \in (start + 1)..Len(content) : IsCreateClose(content[k]) }
        end == CHOOSE k \in closes : \A j \in closes : k <= j
    IN  IF opens = {} THEN reg
        ELSE IF closes = {} THEN reg
        ELSE ExtractSchemas(content, end + 1,
                            DictPut(reg, LineOf(content[start]).table,
                                    SubSeq(content, start, end)))

\* parse_create_table lines 363-392: the column definitions between the
\* parentheses of a CREATE statement
RECURSIVE ColumnDefs(_)
ColumnDefs(create_sql) ==
    IF create_sql = <<>> THEN <<>>
    ELSE IF Len(create_sql) = 1
    THEN (IF IsBody(create_sql[1]) /\ LineOf(create_sql[1]).kind = "create"
          THEN LineOf(create_sql[1]).body[create_sql[1].o - 1] ELSE <<>>)
    ELSE ColumnDefs(SubSeq(create_sql, 1, Len(create_sql) \div 2))
            \o ColumnDefs(SubSeq(create_sql, Len(create_sql) \div 2 + 1, Len(create_sql)))

\* PROVENANCE_MAP: the label of the i-th dump file of the batch
PROVENANCE_MAP ==
    << <<"Personal Backlog">>, <<"Borrowed">>, <<"rpbiss">>,
       <<"Evansville Public Library">> >>

\* datetime.now().isoformat(timespec="seconds") at the moments of the clock
Clock == << <<"2026-01-01T10:00:00">>, <<"2026-01-01T10:00:01">> >>

-----------------------------------------------------------------------------
(* Hsql2sqlite.py: main and processRWbackup                                *)

\* a book
BookValues(rowkey, title, isbn, pages) ==
    ("ROWKEY" :> rowkey) @@ ("TITLE" :> title) @@ ("ISBN" :> isbn) @@ ("PAGES" :> pages)

InsertChoices ==
    { ReaderwareInsert(CompactColumns,
                       BookValues(SInt(1), SText(Dune), SText(Isbn1), SInt(412))
                          @@ ("AUTHOR" :> SInt(1))),
      ContributorInsert }

InsertSeqs == UNION { [1..n -> InsertChoices] : n \in 0..MaxLines }

SchemaChoices ==
    { <<>>, << ReaderwareCreate(CompactColumns), Noise, ContributorCreate >> }

FilePool ==
    LET whole == { c \o i : c \in SchemaChoices, i \in InsertSeqs }
    IN  { [lines |-> w] : w \in whole }
        \cup { [lines |-> Unterminated(w)] : w \in { x \in whole : Len(x) \in 1..2 } }

\* the files that follow the first one of a batch
LaterPool ==
    { [lines |-> << ReaderwareCreate(CompactColumns), ContributorCreate,
                    ReaderwareInsert(CompactColumns,
                                     BookValues(SInt(2), SText(Dune), SText(Isbn1), SNull)) >>],
      [lines |-> << ContributorInsert >>],
      [lines |-> Unterminated(<< ContributorCreate, ContributorInsert >>)] }

FileLists ==
    { <<f>> \o rest : f \in FilePool,
                      rest \in UNION { [1..n -> LaterPool] : n \in 0..(MaxFiles - 1) } }

\* the module as loaded, main about to convert the first file of the batch
ConvStart ==
    /\ MergeIdle
    /\ file_i = 1
    /\ cpc = "split"
    /\ provenance = <<"foobar">>
    /\ import_time = <<"now">>
    /\ createLines = EmptyBuffer
    /\ readerwareLines = EmptyBuffer
    /\ otherInsertLines = EmptyBuffer
    /\ sortedInserts = <<>>
    /\ line_i = 1
    /\ originalRWschema = EmptyDict
    /\ schemas = EmptyDict
    /\ db = EmptyDict
    /\ insert_count = 0
    /\ error_count = 0
    /\ processed = <<>>

ConvInit ==
    /\ files \in FileLists
    /\ ConvStart

\* main lines 720-721 and processRWbackup lines 631-663: label the run, split
\* the file into the three buffers, rewind them, build sortedInserts and
\* connect to the target database of the file
\* line 631: open(srcPath, "r") succeeds; a file is readable unless it says not
Readable(file) == IF "readable" \in DOMAIN file THEN file.readable ELSE TRUE

\* line 663: sqlite3.connect(targetDBpath) can open or create the target
Writable(file) == IF "writable" \in DOMAIN file THEN file.writable ELSE TRUE

SplitBackup ==
    /\ cpc = "split"
    /\ Readable(files[file_i])
    /\ provenance' = PROVENANCE_MAP[file_i]
    /\ \E k \in 1..Len(Clock) :
          /\ \A j \in 1..Len(Clock) : import_time = Clock[j] => j <= k
          /\ import_time' = Clock[k]
    /\ LET b == Classify([create |-> createLines, rw |-> readerwareLines,
                          other |-> otherInsertLines], file_i, 1)
       IN  /\ createLines' = Seek0(b.create)
           /\ otherInsertLines' = Seek0(b.other)
           /\ readerwareLines' = Seek0(b.rw)
           /\ sortedInserts' = SplitLines(SortedText(b.other, b.rw))
    /\ db' = EmptyDict
    /\ cpc' = "schema"
    /\ UNCHANGED <<files, file_i, line_i, originalRWschema, schemas, insert_count,
                   error_count, processed>>

\* lines 672-680: extract the CREATE statements, derive and create every table
BuildSchemas ==
    /\ cpc = "schema"
    /\ Writable(files[file_i])
    /\ LET reg == ExtractSchemas(ReadAll(createLines), 1, originalRWschema)
           new == [tb \in DOMAIN reg |-> parse_create_table(tb, ColumnDefs(reg[tb]))]
       IN  /\ originalRWschema' = reg
           /\ schemas' = [tb \in (DOMAIN schemas) \cup (DOMAIN reg) |->
                            IF tb \in DOMAIN reg THEN new[tb] ELSE schemas[tb]]
           /\ db' = [tb \in { x \in DOMAIN reg : ~CreateTableRaises(new[x]) }
                              \cup ((DOMAIN db) \ (DOMAIN reg)) |->
                        IF tb \in DOMAIN reg THEN <<>> ELSE db[tb]]
    /\ createLines' = [createLines EXCEPT !.pos = Len(createLines.buf)]
    /\ line_i' = 1
    /\ insert_count' = 0
    /\ error_count' = 0
    /\ cpc' = "inserts"
    /\ UNCHANGED <<files, file_i, provenance, import_time, readerwareLines,
                   otherInsertLines, sortedInserts, processed>>

\* lines 608-617: the row is stored, or the line is counted as an error
StoreRow(bl, table, r, ins) ==
    /\ processed' = Append(processed,
                           [file |-> file_i, text |-> bl, table |-> table,
                            columns |-> IF table \in DOMAIN schemas
                                        THEN schemas[table].all_columns ELSE <<>>,
                            tokens |-> r.tokens, readyRow |-> r.readyRow,
                            images |-> r.images, smallFrom |-> r.smallFrom,
                            largeFrom |-> r.largeFrom, inserted |-> ins.ok])
    /\ IF ~ins.ok
       THEN /\ error_count' = error_count + 1
            /\ UNCHANGED <<db, insert_count>>
       ELSE /\ db' = [db EXCEPT ![table] = ins.v]
            /\ insert_count' = IF table = "READERWARE" THEN insert_count + 1
                               ELSE insert_count
            /\ UNCHANGED error_count

\* lines 594-608: the INSERT of the row the Row Engine built
ExecuteInsert(bl, table, r) ==
    StoreRow(bl, table, r,
             IF r.raised THEN Raised ELSE InsertInto(db, schemas[table], table, r.readyRow))

\* one iteration of "for line in sortedInserts" in insert_readerware_into_sqlite
ProcessInsertLine ==
    /\ cpc = "inserts"
    /\ line_i <= Len(sortedInserts)
    /\ IF ~InsertMatch(sortedInserts[line_i])
       THEN UNCHANGED <<db, insert_count, error_count, processed>>
       ELSE ExecuteInsert(sortedInserts[line_i], MatchTable(sortedInserts[line_i]),
                          RowEngine(schemas, MatchTable(sortedInserts[line_i]),
                                    ValuesStr(sortedInserts[line_i]), provenance,
                                    import_time))
    /\ line_i' = line_i + 1
    /\ UNCHANGED <<files, file_i, cpc, provenance, import_time, createLines,
                   readerwareLines, otherInsertLines, sortedInserts, originalRWschema,
                   schemas>>

\* mutation: the registries are left as the run filled them
FinishRunKeeping ==
    /\ cpc = "inserts"
    /\ line_i > Len(sortedInserts)
    /\ IF file_i < Len(files)
       THEN file_i' = file_i + 1 /\ cpc' = "split"
       ELSE file_i' = file_i /\ cpc' = "done"
    /\ UNCHANGED <<files, provenance, import_time, createLines, readerwareLines,
                   otherInsertLines, sortedInserts, line_i, originalRWschema, schemas, db,
                   insert_count, error_count, processed>>

\* lines 684-690 and the next iteration of main: commit, clear the registries
FinishRun ==
    /\ cpc = "inserts"
    /\ line_i > Len(sortedInserts)
    /\ originalRWschema' = EmptyDict
    /\ schemas' = EmptyDict
    /\ IF file_i < Len(files)
       THEN file_i' = file_i + 1 /\ cpc' = "split"
       ELSE file_i' = file_i /\ cpc' = "done"
    /\ UNCHANGED <<files, provenance, import_time, createLines, readerwareLines,
                   otherInsertLines, sortedInserts, line_i, db, insert_count, error_count,
                   processed>>

\* line 631: open raises; nothing in processRWbackup or main catches it, and
\* the process ends
OpenRaises ==
    /\ cpc = "split"
    /\ ~Readable(files[file_i])
    /\ cpc' = "crashed"
    /\ UNCHANGED <<files, file_i, provenance, import_time, createLines, readerwareLines,
                   otherInsertLines, sortedInserts, line_i, originalRWschema, schemas, db,
                   insert_count, error_count, processed>>

\* line 663: connect raises, outside every try of processRWbackup
ConnectRaises ==
    /\ cpc = "schema"
    /\ ~Writable(files[file_i])
    /\ cpc' = "crashed"
    /\ UNCHANGED <<files, file_i, provenance, import_time, createLines, readerwareLines,
                   otherInsertLines, sortedInserts, line_i, originalRWschema, schemas, db,
                   insert_count, error_count, processed>>

ConvNext ==
    /\ \/ SplitBackup
       \/ BuildSchemas
       \/ ProcessInsertLine
       \/ FinishRun
    /\ UNCHANGED mergeVars

SpecConv == ConvInit /\ [][ConvNext]_vars

-----------------------------------------------------------------------------
(* processRWbackup: properties *)

KindsIn(text) == { LineOf(text[k]).kind : k \in 1..Len(text) }

\* C1: within one run the Row Engine processes every other-table INSERT line
\* before any INSERT INTO READERWARE VALUES line, and the lines of each of the
\* two classes in the order they have in their file.
OtherInsertsBeforeReaderware ==
    \A i, j \in 1..Len(processed) :
        (i < j /\ processed[i].file = processed[j].file) =>
            LET a == processed[i].text[1]
                b == processed[j].text[1]
            IN  /\ ~("rw" \in KindsIn(processed[i].text)
                       /\ "other" \in KindsIn(processed[j].text))
                /\ (LineOf(a).kind = LineOf(b).kind /\ a.f = b.f) => a.l < b.l

\* a dump with the lines rw, other, rw (in this order) has been processed: the
\* other-table line first, then the two READERWARE lines in file order
InterleavedDumpProcessed ==
    \E i, j, k \in 1..Len(processed) :
        LET a == processed[i].text[1]
            b == processed[j].text[1]
            c == processed[k].text[1]
        IN  /\ i < j /\ j < k
            /\ processed[i].file = a.f /\ processed[j].file = a.f
            /\ processed[k].file = a.f
            /\ a.f = b.f /\ b.f = c.f
            /\ LineOf(a).kind = "other" /\ LineOf(b).kind = "rw" /\ LineOf(c).kind = "rw"
            /\ b.l < a.l /\ a.l < c.l

-----------------------------------------------------------------------------
(* the content hash: batches of one or two dumps with two books            *)

HashTriples ==
    { <<SText(Dune), SText(Isbn1), SInt(412)>>,
      <<SText(Dune), SText(Isbn1), SInt(413)>>,
      <<SText(Dune), SText(Isbn1), SInt(-1)>>,
      <<SText(Dune), SText(Isbn1), SNull>>,
      <<SText(Dune), SNull, SInt(412)>>,
      <<SText(Dune), SText(<<" ">>), SInt(412)>>,
      <<SText(<<"a", "|", "|", "b">>), SText(<<"c">>), SNull>>,
      <<SText(<<"a">>), SText(<<"b", "|", "|", "c">>), SNull>> }

HashBooks ==
    { BookValues(SInt(k), t[1], t[2], t[3]) @@ ("AUTHOR" :> a) :
        k \in {1, 2}, t \in HashTriples, a \in {SNull, SInt(7)} }

Layouts == {CompactColumns, WideColumns}

\* two books in one dump, or in the dumps of two files
HashFileLists ==
    { << [lines |-> << ReaderwareCreate(c), ReaderwareInsert(c, BookValues(SInt(1), t[1], t[2], t[3])),
                       ReaderwareInsert(c, b) >>] >> :
        c \in Layouts, t \in HashTriples, b \in HashBooks }
    \cup
    { << [lines |-> << ReaderwareCreate(c),
                       ReaderwareInsert(c, BookValues(SInt(1), t[1], t[2], t[3])) >>],
         [lines |-> << ReaderwareCreate(d), ReaderwareInsert(d, b) >>] >> :
        c \in Layouts, d \in Layouts, t \in HashTriples, b \in HashBooks }

HashInit ==
    /\ files \in HashFileLists
    /\ ConvStart

SpecHash == HashInit /\ [][ConvNext]_vars

\* the value of a column in the row of a processed line
Column(e, name) == e.readyRow[IndexOf(e.columns, name).v + 1]

\* the processed lines of READERWARE whose row got its content hash
Hashed ==
    { i \in 1..Len(processed) :
        /\ processed[i].table = "READERWARE"
        /\ Len(processed[i].readyRow) = Len(processed[i].columns)
        /\ IndexOf(processed[i].columns, "HASH").ok }

HashFieldsOf(e) == <<Column(e, "TITLE"), Column(e, "ISBN"), Column(e, "PAGES")>>

\* C6: two READERWARE rows with identical values of TITLE, ISBN and PAGES get
\* the same ContentHash, whatever their ROWKEY, their other columns, the
\* provenance label and the import time.
ContentHashStable ==
    \A i, j \in Hashed :
        HashFieldsOf(processed[i]) = HashFieldsOf(processed[j])
            => Column(processed[i], "HASH") = Column(processed[j], "HASH")

\* two rows of different dumps with the same hash fields and another ROWKEY,
\* AUTHOR, provenance and import time are stored with the same hash
SameBookInTwoDumps ==
    \E i, j \in Hashed :
        /\ processed[i].file # processed[j].file
        /\ processed[i].inserted /\ processed[j].inserted
        /\ HashFieldsOf(processed[i]) = HashFieldsOf(processed[j])
        /\ Column(processed[i], "ROWKEY") # Column(processed[j], "ROWKEY")
        /\ Column(processed[i], "AUTHOR") # Column(processed[j], "AUTHOR")
        /\ Column(processed[i], "PROVENANCE") # Column(processed[j], "PROVENANCE")
        /\ Column(processed[i], "CONVERTED") # Column(processed[j], "CONVERTED")
        /\ Column(processed[i], "HASH") = Column(processed[j], "HASH")

\* C7: two READERWARE rows that differ in the value of TITLE, ISBN or PAGES
\* get different ContentHashes (the digest is taken as injective).
ContentHashSensitive ==
    \A i, j \in Hashed :
        HashFieldsOf(processed[i]) # HashFieldsOf(processed[j])
            => Column(processed[i], "HASH") # Column(processed[j], "HASH")

-----------------------------------------------------------------------------
(* the cover selection: a dump with one book, its four image slots varied  *)

ImageChoices ==
    { SNull, SBinary(<<>>), SBinary(<<"4", "A", "5", "0", "4", "5", "4", "7">>), SBinary(<<"4", "A", "5", "0", "4", "5", "4", "7", "3", "1">>),
      SBinary(<<"<300>">>), SBinary(<<"<300b>">>), SBinary(<<"<1200>">>),
      SBinary(<<"<50000>">>), SBinary(<<"<150000>">>) }

ImageNames == <<"IMAGE1_DATA", "IMAGE2_DATA", "IMAGE1_LARGE_DATA", "IMAGE2_LARGE_DATA">>

\* the books with the images of a set in their four slots
CoverBooks(choices) ==
    { BookValues(SInt(1), SText(Dune), SText(Isbn1), SInt(412))
        @@ [n \in {ImageNames[k] : k \in 1..4} |->
               img[CHOOSE k \in 1..4 : ImageNames[k] = n]] :
        img \in [1..4 -> choices] }

WideImageChoices ==
    { SNull, SBinary(<<"<300>">>), SBinary(<<"<1200>">>), SBinary(<<"<150000>">>) }

CoverFileLists ==
    { << [lines |-> << ReaderwareCreate(CompactColumns),
                       ReaderwareInsert(CompactColumns, b) >>] >> :
        b \in CoverBooks(ImageChoices) }
    \cup
    { << [lines |-> << ReaderwareCreate(WideColumns),
                       ReaderwareInsert(WideColumns, b) >>] >> :
        b \in CoverBooks(WideImageChoices) }

CoverInit ==
    /\ files \in CoverFileLists
    /\ ConvStart

SpecCover == CoverInit /\ [][ConvNext]_vars

\* the processed lines of READERWARE whose four image slots were examined
Examined ==
    { i \in 1..Len(processed) :
        processed[i].table = "READERWARE" /\ Len(processed[i].images) = 4 }

\* the slots that hold a candidate: a blob of more than four bytes
Candidates(images) ==
    { k \in 1..4 : images[k].t = "bytes" /\ ByteLen(images[k].v) > 4 }

\* the earliest slot among the smallest candidates, among the largest ones
SmallestSlot(images) ==
    CHOOSE k \in Candidates(images) :
        \A j \in Candidates(images) :
            \/ ByteLen(images[k].v) < ByteLen(images[j].v)
            \/ ByteLen(images[k].v) = ByteLen(images[j].v) /\ k <= j

LargestSlot(images) ==
    CHOOSE k \in Candidates(images) :
        \A j \in Candidates(images) :
            \/ ByteLen(images[k].v) > ByteLen(images[j].v)
            \/ ByteLen(images[k].v) = ByteLen(images[j].v) /\ k <= j

\* C8: with a candidate among the four image slots, the smallest candidate is
\* recompressed into the small cover and the largest one into the large cover,
\* ties going to the earliest slot; without a candidate both covers are null;
\* the two other slots are null in every case.
CoverSelection ==
    \A i \in Examined :
        LET e == processed[i]
            images == e.images
        IN  /\ Candidates(images) # {} =>
                 /\ e.smallFrom = images[SmallestSlot(images)]
                 /\ e.largeFrom = images[LargestSlot(images)]
                 /\ Column(e, "IMAGE1_DATA") = process_image(e.smallFrom, SMALL_COVER)
                 /\ Column(e, "IMAGE2_DATA") = process_image(e.largeFrom, LARGE_COVER)
            /\ Candidates(images) = {} =>
                 Column(e, "IMAGE1_DATA") = None /\ Column(e, "IMAGE2_DATA") = None
            /\ Column(e, "IMAGE1_LARGE_DATA") = None
            /\ Column(e, "IMAGE2_LARGE_DATA") = None

-----------------------------------------------------------------------------
(* the tokenizer: a dump with one table and one row, its value list varied *)

MaxValues == 3

OBrien == <<"O", "'", "B", "r", "i", "e", "n">>

JpegHex == <<"4", "A", "5", "0", "4", "5", "4", "7">>

TokenValues ==
    { SNull, SInt(7), SText(OBrien), SText(<<"a", ",", "b">>), SText(<<>>),
      SText(<<Quote>>), SText(<<",">>), SText(<<Quote, ",", Quote, Quote>>),
      SHexLiteral(JpegHex), SBinary(JpegHex) }

TokenValueLists == UNION { [1..n -> TokenValues] : n \in 1..MaxValues }

\* the column HSQLDB holds a value in
TypeFor(val) ==
    CASE val.k = "int" -> "INTEGER"
      [] val.k \in {"binary", "hexliteral"} -> "VARBINARY"
      [] OTHER -> "VARCHAR_IGNORECASE"

ColumnNames == <<"C1", "C2", "C3", "C4", "C5">>

\* a table for the values of a row, and the row; source keeps the values
TokenCreate(vals) ==
    Line("create", "ATTACHMENT",
         << [i \in 1..Len(vals) |-> <<ColumnNames[i], TypeFor(vals[i])>>] >>, TRUE)

TokenInsert(vals) ==
    [kind |-> "other", table |-> "ATTACHMENT", body |-> << ValueList(vals) >>,
     nl |-> TRUE, source |-> vals]

TokenFileLists ==
    { << [lines |-> << TokenCreate(vals), TokenInsert(vals) >>] >> :
        vals \in TokenValueLists }

TokenInit ==
    /\ files \in TokenFileLists
    /\ ConvStart

SpecToken == TokenInit /\ [][ConvNext]_vars

\* the values HSQLDB wrote on the line that was processed
SourceOf(e) == LineOf(e.text[1]).source

HexLiteralDecoded ==
    \A i \in 1..Len(processed) :
        LET e == processed[i]
        IN  \A k \in 1..Len(SourceOf(e)) :
               SourceOf(e)[k].k = "hexliteral" =>
                  /\ k <= Len(e.readyRow)
                  /\ e.readyRow[k] = BytesV(Unhexlify(SourceOf(e)[k].v).v)

-----------------------------------------------------------------------------
(* Schema Transformer and Row Engine on tables of every shape              *)
(***************************************************************************)

MaxColumns == 2

Identity ==
    <<"BIGINT", "GENERATED", "BY", "DEFAULT", "AS", "IDENTITY(START", "WITH", "0)",
      "NOT", "NULL", "PRIMARY", "KEY">>

\* what follows the name in a column definition
PlainTypes ==
    { <<"INTEGER">>, <<"INTEGER", "NOT", "NULL">>, <<"BIGINT">>,
      <<"BIGINT", "NOT", "NULL">>, <<"VARCHAR">> }

\* the column definitions of a table: at most one identity column, the first
ColumnLists ==
    UNION { { <<first>> \o rest : first \in PlainTypes \cup {Identity},
                                  rest \in [1..(n - 1) -> PlainTypes] } :
            n \in 1..MaxColumns }

MinusOne == SInt(0 - 1)

SchemaValues == { MinusOne, SInt(7), SNull, SText(<<"x">>) }

\* the rows of a table of n columns: one value less, as many, one more
RowsFor(n) ==
    UNION { [1..m -> SchemaValues] : m \in { x \in (n - 1)..(n + 1) : x >= 1 } }

SchemaCreate(types) ==
    Line("create", "PUBLISHER_LIST",
         << [i \in 1..Len(types) |-> <<ColumnNames[i]>> \o types[i]] >>, TRUE)

SchemaInsert(vals) ==
    [kind |-> "other", table |-> "PUBLISHER_LIST", body |-> << ValueList(vals) >>,
     nl |-> TRUE, source |-> vals]

\* a dump of Readerware with all its columns; the row has -1 in two of them
WideDump ==
    [lines |-> << ReaderwareCreate(WideColumns),
                  ReaderwareInsert(WideColumns,
                                   BookValues(SInt(1), SText(Dune), SText(Isbn1), MinusOne)
                                      @@ ("IN_LAST_BATCH" :> MinusOne)) >>]

SchemaFileLists ==
    UNION { { << [lines |-> << SchemaCreate(types), SchemaInsert(vals) >>] >> :
                vals \in RowsFor(Len(types)) } :
            types \in ColumnLists }
    \cup { <<WideDump>> }

SchemaInit ==
    /\ files \in SchemaFileLists
    /\ ConvStart

SpecSchema == SchemaInit /\ [][ConvNext]_vars

\* the column definitions of the CREATE statement of the table of a
\* processed line, in the file it came from
SourceDefs(e) ==
    LET f == files[e.file]
        l == CHOOSE x \in 1..Len(f.lines) :
                f.lines[x].kind = "create" /\ f.lines[x].table = e.table
    IN  f.lines[l].body[1]

IsIntegerTyped(col_def) == Len(col_def) >= 2 /\ col_def[2] \in {"BIGINT", "INTEGER"}

IsNotNull(col_def) == HasWords(col_def, "NOT", "NULL")

\* the transform the claim expects for an integer-typed column
SentinelTransform(col_def) ==
    IF IsNotNull(col_def) THEN "parse_int_not_null" ELSE "parse_int"

Names(columns) == { columns[i] : i \in 1..Len(columns) }

\* an IDENTITY column of the source is INTEGER PRIMARY KEY AUTOINCREMENT in
\* the statement that creates the target table
IdentityIsAutoIncrement ==
    \A tb \in (DOMAIN schemas) \cap (DOMAIN originalRWschema) :
        LET defs == ColumnDefs(originalRWschema[tb])
        IN  \A i \in 1..Len(defs) :
                HasIdentity(defs[i]) /\ i <= Len(schemas[tb].sqlite_columns)
                    => schemas[tb].sqlite_columns[i]
                          = <<defs[i][1], "INTEGER", "PRIMARY", "KEY", "AUTOINCREMENT">>

\* C13: an IDENTITY column of the source is an auto-increment primary key
\* of the target table, and the list of column names of the INSERT
\* (all_columns of the derived schema) does not name it.
IdentityNotInInsertList ==
    /\ IdentityIsAutoIncrement
    /\ \A tb \in (DOMAIN schemas) \cap (DOMAIN originalRWschema) :
          LET defs == ColumnDefs(originalRWschema[tb])
          IN  \A i \in 1..Len(defs) :
                  HasIdentity(defs[i]) => defs[i][1] \notin Names(schemas[tb].all_columns)

-----------------------------------------------------------------------------
(* Hsql2sqlite.py: Schema Extractor, character by character                *)
(***************************************************************************)
(* The conversion above takes a CREATE statement as one opening cell, its  *)
(* column definitions and one closing cell.  Here the text of createLines  *)
(* is a sequence of characters: "(", ")", "x" for any other character,     *)
(* the newline, and one item for each text that the pattern                *)
(* CREATE CACHED TABLE\s+(\w+)\s*\( matches, its parenthesis included.     *)

MaxBody == 3

CreateA == "CREATE CACHED TABLE A ("
CreateB == "CREATE CACHED TABLE B ("

CreateHeads == {CreateA, CreateB}

\* match.group(1)
HeadTable(c) == IF c = CreateA THEN "A" ELSE "B"

IsOpenParen(c) == c = "(" \/ c \in CreateHeads

\* paren_count after the character at m, for a statement that starts at start
ParenCount(content, start, m) ==
    Cardinality({ j \in start..m : IsOpenParen(content[j]) })
        - Cardinality({ j \in start..m : content[j] = ")" })

\* mutation: the statement ends at the first closing parenthesis
ScanStatementsFirstClose(content, pos, reg) ==
    LET heads == { k \in (pos + 1)..Len(content) : content[k] \in CreateHeads }
        start == CHOOSE k \in heads : \A j \in heads : k <= j
        closes == { m \in (start + 1)..Len(content) : content[m] = ")" }
        end == CHOOSE m \in closes : \A j \in closes : m <= j
    IN  IF heads = {} THEN reg
        ELSE IF closes = {} THEN reg
        ELSE DictPut(reg, HeadTable(content[start]), SubSeq(content, start, end))

\* lines 322-348: the loop from pos on; reg is originalRWschema.  An
\* unclosed statement takes the scan to the end of the text
RECURSIVE ScanStatements(_, _, _)
ScanStatements(content, pos, reg) ==
    LET heads == { k \in (pos + 1)..Len(content) : content[k] \in CreateHeads }
        start == CHOOSE k \in heads : \A j \in heads : k <= j
        closes == { m \in (start + 1)..Len(content) : ParenCount(content, start, m) = 0 }
        end == CHOOSE m \in closes : \A j \in closes : m <= j
    IN  IF heads = {} THEN reg
        ELSE IF closes = {} THEN reg
        ELSE ScanStatements(content, end,
                            DictPut(reg, HeadTable(content[start]),
                                    SubSeq(content, start, end)))

\* what follows the opening parenthesis of a statement, up to its newline
Bodies == UNION { [1..n -> {"(", ")", "x"}] : n \in 0..MaxBody }

Statements == { <<h>> \o b \o <<"\n">> : h \in CreateHeads, b \in Bodies }

\* createLines after the split of a dump with one or two CREATE lines
ExtractInit ==
    /\ MergeIdle
    /\ files = <<>>
    /\ file_i = 1
    /\ cpc = "extract"
    /\ provenance = <<"foobar">>
    /\ import_time = <<"now">>
    /\ \E s \in Statements, t \in Statements \cup {<<>>} :
          createLines = [buf |-> s \o t, pos |-> 0]
    /\ readerwareLines = EmptyBuffer
    /\ otherInsertLines = EmptyBuffer
    /\ sortedInserts = <<>>
    /\ line_i = 1
    /\ originalRWschema = EmptyDict
    /\ schemas = EmptyDict
    /\ db = EmptyDict
    /\ insert_count = 0
    /\ error_count = 0
    /\ processed = <<>>

\* getOriginalReaderwareHSQLDBschemas()
ExtractStatements ==
    /\ cpc = "extract"
    /\ originalRWschema' = ScanStatements(ReadAll(createLines), 0, originalRWschema)
    /\ createLines' = [createLines EXCEPT !.pos = Len(createLines.buf)]
    /\ cpc' = "extracted"
    /\ UNCHANGED <<files, file_i, provenance, import_time, readerwareLines,
                   otherInsertLines, sortedInserts, line_i, schemas, db, insert_count,
                   error_count, processed>>

ExtractNext == ExtractStatements /\ UNCHANGED mergeVars

SpecExtract == ExtractInit /\ [][ExtractNext]_vars

\* the lines of the text: first and last position of each
LineStarts(text) == { k \in 1..Len(text) : k = 1 \/ text[k - 1] = "\n" }

LineEnd(text, k) ==
    LET ends == { m \in k..Len(text) : text[m] = "\n" }
    IN  CHOOSE m \in ends : \A j \in ends : m <= j

\* the parentheses of the line that starts at k are balanced
Balanced(text, k) ==
    /\ \A m \in k..LineEnd(text, k) : ParenCount(text, k, m) >= 0
    /\ ParenCount(text, k, LineEnd(text, k)) = 0

\* the parenthesis that balances the opening one of the line that starts at k
Balancing(text, k) ==
    LET zeros == { m \in (k + 1)..LineEnd(text, k) : ParenCount(text, k, m) = 0 }
    IN  CHOOSE m \in zeros : \A j \in zeros : m <= j

\* C12: after the extraction, every CREATE CACHED TABLE line of the text
\* whose parentheses are balanced, and whose table no later line names, is
\* registered under its table name as the span from CREATE to the
\* parenthesis that balances the opening one.
BalancedParenExtraction ==
    cpc = "extracted" =>
        \A k \in LineStarts(createLines.buf) :
            /\ Balanced(createLines.buf, k)
            /\ \A j \in LineStarts(createLines.buf) :
                   j > k => createLines.buf[j] # createLines.buf[k]
            => /\ HeadTable(createLines.buf[k]) \in DOMAIN originalRWschema
               /\ originalRWschema[HeadTable(createLines.buf[k])]
                     = SubSeq(createLines.buf, k, Balancing(createLines.buf, k))

\* C12 for a text whose lines are all balanced
NestedParenExtraction ==
    cpc = "extracted" /\ (\A k \in LineStarts(createLines.buf) : Balanced(createLines.buf, k))
        => \A k \in LineStarts(createLines.buf) :
              (\A j \in LineStarts(createLines.buf) :
                   j > k => createLines.buf[j] # createLines.buf[k])
              => /\ HeadTable(createLines.buf[k]) \in DOMAIN originalRWschema
                 /\ originalRWschema[HeadTable(createLines.buf[k])]
                       = SubSeq(createLines.buf, k, Balancing(createLines.buf, k))

-----------------------------------------------------------------------------
(* Row Engine: the lines that raise                                        *)
(***************************************************************************)

\* READERWARE tables: the images last; a number among the image slots; no
\* TITLE for the hash; no image column
ImagesLast == CompactColumns

NumberAmongImages ==
    SubSeq(CompactColumns, 1, 16) \o <<"COPIES">> \o SubSeq(CompactColumns, 17, 19)

NoTitle == SelectSeq(CompactColumns, LAMBDA c : c # "TITLE")

NoImages == SubSeq(CompactColumns, 1, 15)

RaisingLayouts == {ImagesLast, NumberAmongImages, NoTitle, NoImages}

\* rows: a good one, one without the TITLE that is NOT NULL, one more with
\* the key of the first, one with a number of copies
RaisingBooks ==
    { BookValues(SInt(1), SText(Dune), SText(Isbn1), SInt(412))
         @@ ("IMAGE1_DATA" :> SBinary(<<"<300>">>)),
      BookValues(SInt(2), SNull, SText(Isbn1), SInt(412)),
      BookValues(SInt(1), SText(Dune), SNull, SInt(7)),
      BookValues(SInt(3), SText(Dune), SText(Isbn1), SInt(412))
         @@ ("COPIES" :> SInt(3)) @@ ("IMAGE1_DATA" :> SBinary(<<"<300>">>)) }

\* a dump with or without the CREATE statements of its tables, its rows of
\* READERWARE and one of CONTRIBUTOR
\* the rows of a table with the columns cols: those of the books, one with a
\* value less than the table has columns, one with a value more
RaisingRows(cols) ==
    { ReaderwareInsert(cols, b) : b \in RaisingBooks }
    \cup { ReaderwareInsert(SubSeq(cols, 1, Len(cols) - 1),
                            BookValues(SInt(4), SText(Dune), SText(Isbn1), SInt(412))),
           ReaderwareInsert(cols \o <<"SALE_PRICE">>,
                            BookValues(SInt(5), SText(Dune), SText(Isbn1), SInt(412))) }

RaisingFileLists ==
    UNION { { << [lines |-> c \o <<ContributorInsert>> \o rows] >> :
                c \in { <<>>, <<ReaderwareCreate(cols)>>,
                        <<ReaderwareCreate(cols), ContributorCreate>> },
                rows \in UNION { [1..n -> RaisingRows(cols)] : n \in 1..MaxLines } } :
            cols \in RaisingLayouts }

RaisingInit ==
    /\ files \in RaisingFileLists
    /\ ConvStart

SpecRaising == RaisingInit /\ [][ConvNext]_vars

\* the search over the image slots raised: len() of a number
ImageSearchRaised(e) ==
    \E i \in 1..Len(e.images) : Truthy(e.images[i]) /\ ~PyLen(e.images[i]).ok

\* the lines of the current run that the Row Engine has matched
RunEntries == { p \in 1..Len(processed) : processed[p].file = file_i }

\* every line that was not inserted is counted, and no other
ErrorsCounted ==
    cpc = "inserts"
        => error_count = Cardinality({ p \in RunEntries : ~processed[p].inserted })

\* the Row Engine goes through all lines: the matched ones among the lines
\* it has passed are the entries of the run
AllLinesProcessed ==
    cpc = "inserts"
        => Cardinality(RunEntries)
              = Cardinality({ l \in 1..(line_i - 1) : InsertMatch(sortedInserts[l]) })

\* C14: a line with a step that raised is not inserted and is counted as one
\* error, and the Row Engine goes on with the lines that remain.
FailureIsolation ==
    /\ \A p \in 1..Len(processed) :
          ImageSearchRaised(processed[p]) => ~processed[p].inserted
    /\ ErrorsCounted
    /\ AllLinesProcessed

\* C15: a row whose number of values differs from the number of columns of
\* its table is not inserted: no table holds a row of another width than its
\* column list, the line is counted as an error and the Row Engine goes on
\* with the next line.
MismatchedRowSkipped ==
    /\ \A p \in 1..Len(processed) :
          Len(processed[p].readyRow) # Len(processed[p].columns) => ~processed[p].inserted
    /\ \A tb \in (DOMAIN db) \cap (DOMAIN schemas) :
          \A k \in 1..Len(db[tb]) : Len(db[tb][k]) = Len(schemas[tb].all_columns)
    /\ ErrorsCounted
    /\ AllLinesProcessed

\* a row with a value too few was skipped and counted, and the next line
\* was inserted
RowAfterMismatchInserted ==
    \E p \in 1..(Len(processed) - 1) :
        /\ processed[p].table = "READERWARE"
        /\ processed[p].columns # <<>>
        /\ Len(processed[p].readyRow) < Len(processed[p].columns)
        /\ ~processed[p].inserted
        /\ processed[p + 1].file = processed[p].file
        /\ processed[p + 1].inserted
        /\ cpc = "inserts"
        /\ error_count >= 1

-----------------------------------------------------------------------------
(* main: a batch with files that cannot be read or written                 *)
(***************************************************************************)

\* a dump with one row of CONTRIBUTOR
SmallDump == << ContributorCreate, ContributorInsert >>

BatchFiles ==
    { [lines |-> SmallDump, readable |-> r, writable |-> w] : r, w \in BOOLEAN }
    \cup { [lines |-> <<>>, readable |-> r, writable |-> TRUE] : r \in BOOLEAN }

BatchFileLists == UNION { [1..n -> BatchFiles] : n \in 1..(MaxFiles + 1) }

BatchInit ==
    /\ files \in BatchFileLists
    /\ ConvStart

BatchNext ==
    /\ \/ SplitBackup
       \/ OpenRaises
       \/ BuildSchemas
       \/ ConnectRaises
       \/ ProcessInsertLine
       \/ FinishRun
    /\ UNCHANGED mergeVars

SpecBatch == BatchInit /\ [][BatchNext]_vars

\* C16: a file that cannot be read, or whose target cannot be written, ends
\* the conversion of that file only: the batch never ends with a file after
\* it left unconverted.
LaterFilesConverted ==
    cpc = "crashed" => file_i = Len(files)

\* C17: when the conversion of a file starts, the two registries
\* originalRWschema and schemas hold no table.
RegistriesEmptyAtStart ==
    cpc = "split" => originalRWschema = EmptyDict /\ schemas = EmptyDict

\* the second file of a batch is about to be converted, and the run of the
\* first file had registered a table
SecondRunStarts ==
    /\ cpc = "split"
    /\ file_i = 2
    /\ \E p \in 1..Len(processed) :
          processed[p].file = 1 /\ processed[p].columns # <<>>

-----------------------------------------------------------------------------
(* mergeBackups.py: the lookup tables of the target                        *)
(***************************************************************************)

\* the rows of a lookup table of the target with the natural key item
RowsNamed(tb, item) ==
    { i \in 1..Len(target.lk[tb]) : target.lk[tb][i].name = StrV(item) }

\* C18: every lookup table of the target holds at most one row for a
\* natural key, every entry of the cache maps a name to the ROWKEY of a row
\* of the target with that name, and the key a call returned for a name is
\* the ROWKEY of the row with that name.
NaturalKeyResolution ==
    \A tb \in TableSet :
        /\ \A i, j \in 1..Len(target.lk[tb]) :
              target.lk[tb][i].name # None /\ target.lk[tb][i].name = target.lk[tb][j].name
                  => i = j
        /\ \A item \in DOMAIN lookup_maps[tb] :
              /\ item # <<>>
              /\ \E i \in RowsNamed(tb, item) :
                    lookup_maps[tb][item] = IntV(target.lk[tb][i].ROWKEY)
        /\ \A e \in remapLog :
              e.table = tb /\ e.new # None
                  => \E i \in RowsNamed(tb, e.name) : e.new = IntV(target.lk[tb][i].ROWKEY)

\* the cache holds a name that the target had before the merge and a name
\* that the merge inserted
CachedExistingAndInserted ==
    /\ NameA \in DOMAIN lookup_maps["CONTRIBUTOR"]
    /\ NameB \in DOMAIN lookup_maps["CONTRIBUTOR"]
    /\ lookup_maps["CONTRIBUTOR"][NameA] = IntV(4)
    /\ lookup_maps["CONTRIBUTOR"][NameB] = IntV(5)
    /\ Len(target.lk["CONTRIBUTOR"]) = 2

-----------------------------------------------------------------------------
(* Hsql2sqlite.py: the line buffers over the runs of a batch               *)
(***************************************************************************)

\* the text is line l of file f, whole, without its newline
IsStatement(text, f, l) ==
    text = [o \in 1..LineLen(files[f].lines[l]) |-> [f |-> f, l |-> l, o |-> o]]

\* the text is line l of file f, whole, with its newline when it has one
IsLine(text, f, l) == text = LineText(f, l, files[f].lines[l])

\* the lines of file f that the classifier keeps as INSERT lines
InsertLinesOf(f) ==
    { l \in 1..Len(files[f].lines) : files[f].lines[l].kind \in {"rw", "other"} }

\* the INSERT lines of the current run were all processed, each once
NoLineLost ==
    cpc = "inserts" /\ line_i > Len(sortedInserts)
        => \A l \in InsertLinesOf(file_i) :
              Cardinality({ p \in RunEntries : IsLine(processed[p].text, file_i, l) }) = 1

\* C19: what a run processes are the lines of its own file, each whole and
\* on its own: every INSERT line processed is one INSERT line of the file of
\* the run, every CREATE statement registered is one CREATE line of that
\* file, and no INSERT line of the file is lost.
RunIsolation ==
    /\ \A p \in 1..Len(processed) :
          \E l \in InsertLinesOf(processed[p].file) :
              IsLine(processed[p].text, processed[p].file, l)
    /\ \A tb \in DOMAIN originalRWschema :
          \E l \in 1..Len(files[file_i].lines) :
              /\ files[file_i].lines[l].kind = "create"
              /\ IsStatement(originalRWschema[tb], file_i, l)
    /\ NoLineLost

\* every line of every file of the batch ends with a newline
AllTerminated == \A f \in 1..Len(files) : \A l \in 1..Len(files[f].lines) : files[f].lines[l].nl

\* the same over batches whose lines all end with a newline: what is left
\* to go wrong is what an earlier run left in the buffers
RunIsolationOfTerminated == AllTerminated => RunIsolation

\* a first run alone, of a file whose lines all end with a newline
FirstRunIsolated == AllTerminated /\ file_i = 1 => RunIsolation

-----------------------------------------------------------------------------
(* mergeBackups.py: the foreign keys of the rows that merge_books inserts  *)
(***************************************************************************)

\* the value is NULL or the ROWKEY of a row of the table
RefersTo(rows, val) ==
    val # None => \E i \in 1..Len(rows) : IntV(rows[i].ROWKEY) = val

\* the step inserts a BOOKS row into the target
BookInserted == Len(target'.books) > Len(target.books)

\* every foreign key of the row the step inserts is NULL or the ROWKEY of a
\* row that the target lookup table holds after the step
InsertedRowRefersToTarget ==
    [][BookInserted =>
         \A f \in 1..Len(FKFields) :
            RefersTo(target'.lk[FKFields[f][2]],
                     target'.books[Len(target'.books)][FKFields[f][1]])]_vars

\* C20: every non-null foreign key of a BOOKS row inserted by merge_books is
\* the ROWKEY of a row of the corresponding target lookup table, and a foreign
\* key of the source row that refers to no non-empty natural key in the lookup
\* table of its source is stored as NULL.
MergedForeignKeys ==
    [][BookInserted =>
         \A f \in 1..Len(FKFields) :
            LET field == FKFields[f][1]
                tb == FKFields[f][2]
                old_key == source_dbs[src_i].books[row_i][field]
                new_key == target'.books[Len(target'.books)][field]
            IN  /\ RefersTo(target'.lk[tb], new_key)
                /\ (old_key # None /\ OwnName(source_dbs[src_i], tb, old_key) = <<>>)
                       => new_key = None]_vars

-----------------------------------------------------------------------------
(* mergeBackups.py: natural keys that differ in case or in padding         *)
(***************************************************************************)

NameUpperA == <<"A">>
NameAPad == <<"a", " ">>

\* the spellings of one name
CaseNames == {NameA, NameUpperA, NamePadA, NameAPad}

\* a source whose one book has an author spelled one of these ways
CasePool ==
    { [lk |-> [NoLookups EXCEPT !["CONTRIBUTOR"] = <<LkRow(1, StrV(n))>>],
       books |-> <<Book(1, IntV(1), None, None, h)>>,
       extra_col |-> FALSE] : n \in CaseNames, h \in {Hash1, Hash2, None} }

CaseSourceLists == UNION { [1..n -> CasePool] : n \in 1..MaxSources }

CaseInit ==
    /\ ConvIdle
    /\ source_dbs \in CaseSourceLists
    /\ target \in TargetChoices
    /\ lookup_maps = [tb \in TableSet |-> EmptyDict]
    /\ src_lookups = [tb \in {} |-> EmptyDict]
    /\ mpc = "prepare"
    /\ src_i = 1
    /\ row_i = 1
    /\ inserted = 0
    /\ errors = 0
    /\ remapLog = {}
    /\ reverse_lookups = EmptyDict
    /\ warnings = {}
    /\ skipped = 0
    /\ committed = [lk |-> target.lk, books |-> target.books]

SpecCase == CaseInit /\ [][MergeNext]_vars

\* letter case removed, over the letters the names are spelled with
LowerChar(c) == CASE c = "A" -> "a" [] c = "B" -> "b" [] c = "P" -> "p" [] OTHER -> c

Lower(s) == [i \in 1..Len(s) |-> LowerChar(s[i])]

\* a natural key without its leading and trailing whitespace and letter case
Normalized(val) == Lower(Strip(OrEmpty(val)))

\* the rows of a table whose name is spelled the same way up to padding
SamePadded(rows, i, j) == Strip(OrEmpty(rows[i].name)) = Strip(OrEmpty(rows[j].name))

\* natural keys that differ only in leading or trailing whitespace have a
\* single row in the target lookup table
PaddingNormalized ==
    \A tb \in TableSet : \A i, j \in 1..Len(target.lk[tb]) :
        SamePadded(target.lk[tb], i, j) => i = j

\* C21: natural keys that differ only in letter case or in leading or
\* trailing whitespace resolve to the same target key and have a single row
\* in the target lookup table.
CaseWhitespaceNormalized ==
    /\ \A tb \in TableSet : \A i, j \in 1..Len(target.lk[tb]) :
          Normalized(target.lk[tb][i].name) = Normalized(target.lk[tb][j].name) => i = j
    /\ \A e1, e2 \in remapLog :
          (e1.table = e2.table /\ e1.name # <<>> /\ Lower(e1.name) = Lower(e2.name)
              /\ e1.new # None /\ e2.new # None)
             => e1.new = e2.new

-----------------------------------------------------------------------------
(* merge_books: de-duplication by content hash                             *)
(***************************************************************************)

\* the step processes one row of the current source
RowProcessed == mpc = "rows" /\ row_i' = row_i + 1

\* a row of the target BOOKS table has the hash of the row being processed
HashInTarget ==
    LET hash == source_dbs[src_i].books[row_i].HASH
    IN  hash # None /\ \E k \in 1..Len(target.books) : target.books[k].HASH = hash

\* exactly one row is added at the end of BOOKS, the rows before it are left
\* as they were, and its key is one that the target assigns: the key after
\* the greatest one of the table
OneRowInserted ==
    /\ Len(target'.books) = Len(target.books) + 1
    /\ SubSeq(target'.books, 1, Len(target.books)) = target.books
    /\ LET new == target'.books[Len(target'.books)]
       IN  /\ \A k \in 1..Len(target.books) : target.books[k].ROWKEY < new.ROWKEY
           /\ new.ROWKEY = MaxKey(target.books) + 1
           /\ new.HASH = source_dbs[src_i].books[row_i].HASH

\* C22 as stated: a row whose hash is in the target leaves BOOKS unchanged;
\* any other row adds exactly one row, with a key assigned by the target.
FirstSeenWins ==
    [][RowProcessed =>
         IF HashInTarget THEN target'.books = target.books ELSE OneRowInserted]_vars

\* C22 amended: a row whose hash is in the target leaves BOOKS unchanged; any
\* other row adds exactly one row, with a key assigned by the target, unless
\* its INSERT raises, and then BOOKS is unchanged.
FirstSeenWinsUnlessInsertRaises ==
    [][RowProcessed =>
         IF HashInTarget \/ source_dbs[src_i].extra_col
         THEN target'.books = target.books
         ELSE OneRowInserted]_vars

\* a row was skipped for its hash, and a row that had key 5 in its source is
\* in the target under another key
SkippedAndRekeyed ==
    /\ mpc = "done"
    /\ \E s \in 1..Len(source_dbs) :
          /\ source_dbs[s].books = <<Book(1, None, None, None, None),
                                     Book(5, IntV(1), None, None, Hash2)>>
          /\ \E k \in 1..Len(target.books) :
                target.books[k].HASH = Hash2 /\ target.books[k].ROWKEY # 5
    /\ \E s \in 1..Len(source_dbs) : \E i, j \in 1..Len(source_dbs[s].books) :
          i < j /\ source_dbs[s].books[i].HASH = Hash1
                /\ source_dbs[s].books[j].HASH = Hash1

-----------------------------------------------------------------------------
(* merge_books: the duplicate-entry warnings                               *)
(***************************************************************************)

\* the sources whose lookup tables have been loaded
LoadedSources ==
    { s \in 1..Len(source_dbs) : s < src_i \/ (s = src_i /\ mpc \notin {"prepare", "load"}) }

\* the rows of a lookup table of one source that have the natural key
RowsWithName(s, tb, name) ==
    { i \in 1..Len(source_dbs[s].lk[tb]) :
        Strip(OrEmpty(source_dbs[s].lk[tb][i].name)) = name }

\* the rows of a merged source are in the target, by their hash
RowsMerged(s) ==
    \A b \in 1..Len(source_dbs[s].books) :
        (source_dbs[s].books[b].HASH # None /\ ~source_dbs[s].extra_col)
            => \E k \in 1..Len(target.books) :
                  target.books[k].HASH = source_dbs[s].books[b].HASH

\* C23: a warning is printed for source s, table tb and name n if and only if
\* n is the natural key of more than one row of tb in s itself, and a source
\* with warnings is merged all the same.
WarningsOfOwnSource ==
    /\ \A w \in warnings : Cardinality(RowsWithName(w.src, w.table, w.name)) > 1
    /\ \A s \in LoadedSources : \A tb \in TableSet :
          \A i \in 1..Len(source_dbs[s].lk[tb]) :
             LET n == Strip(OrEmpty(source_dbs[s].lk[tb][i].name))
             IN  (n # <<>> /\ Cardinality(RowsWithName(s, tb, n)) > 1)
                    => [src |-> s, table |-> tb, name |-> n] \in warnings
    /\ \A w \in warnings : w.src \in MergedSources => RowsMerged(w.src)

\* every warning names a natural key that more than one row has, in the
\* source it is printed for or in the sources loaded before it
WarningsOfLoadedSources ==
    \A w \in warnings :
        \E i, j \in 1..w.src : \E r1 \in RowsWithName(i, w.table, w.name) :
            \E r2 \in RowsWithName(j, w.table, w.name) : i # j \/ r1 # r2

-----------------------------------------------------------------------------
(* merge_books: a source database that cannot be read                      *)
(***************************************************************************)

\* sources that can be read, one of them with a name on two rows, and one
\* source that lacks its tables
FailPool ==
    { [lk |-> [NoLookups EXCEPT !["CONTRIBUTOR"] = <<LkRow(1, StrV(NameA))>>],
       books |-> <<Book(1, IntV(1), None, None, Hash1)>>,
       extra_col |-> FALSE, missing |-> FALSE],
      [lk |-> [NoLookups EXCEPT !["CONTRIBUTOR"] = <<LkRow(1, StrV(NameB)),
                                                     LkRow(2, StrV(NameB))>>],
       books |-> <<Book(1, IntV(2), None, None, Hash2)>>,
       extra_col |-> FALSE, missing |-> FALSE],
      [lk |-> NoLookups, books |-> <<>>, extra_col |-> FALSE, missing |-> TRUE] }

FailSourceLists == UNION { [1..n -> FailPool] : n \in 1..MaxSources }

FailInit ==
    /\ ConvIdle
    /\ source_dbs \in FailSourceLists
    /\ target \in TargetChoices
    /\ lookup_maps = [tb \in TableSet |-> EmptyDict]
    /\ src_lookups = [tb \in {} |-> EmptyDict]
    /\ mpc = "prepare"
    /\ src_i = 1
    /\ row_i = 1
    /\ inserted = 0
    /\ errors = 0
    /\ remapLog = {}
    /\ reverse_lookups = EmptyDict
    /\ warnings = {}
    /\ skipped = 0
    /\ committed = [lk |-> target.lk, books |-> target.books]

FailNext ==
    /\ \/ PrepareTarget
       \/ LoadSource
       \/ MergeRow
       \/ CloseSource
       \/ CommitTarget
       \/ SourceRaises
    /\ UNCHANGED convVars

SpecFail == FailInit /\ [][FailNext]_vars

\* the rows of a source are in what the target file holds, by their hash
RowsCommitted(s) ==
    \A b \in 1..Len(source_dbs[s].books) :
        source_dbs[s].books[b].HASH # None
            => \E k \in 1..Len(committed.books) :
                  committed.books[k].HASH = source_dbs[s].books[b].HASH

\* C24: when reading one source fails, the rows merged from the sources
\* before it are committed in the target, and the sources after it are merged.
SourceFailureIsolated ==
    mpc = "crashed" =>
        /\ \A s \in 1..(src_i - 1) : RowsCommitted(s)
        /\ src_i = Len(source_dbs)

\* a name that two rows of a source have is warned about for that source
OwnDuplicatesWarned ==
    \A s \in LoadedSources : \A tb \in TableSet :
        \A i \in 1..Len(source_dbs[s].lk[tb]) :
           LET n == Strip(OrEmpty(source_dbs[s].lk[tb][i].name))
           IN  (n # <<>> /\ Cardinality(RowsWithName(s, tb, n)) > 1)
                  => [src |-> s, table |-> tb, name |-> n] \in warnings

\* sources that can all be read end up committed in the target
ReadableSourcesCommitted ==
    mpc = "done" => \A s \in 1..Len(source_dbs) : RowsCommitted(s)

-----------------------------------------------------------------------------
(* Row Engine: READERWARE lines of every number of tokens                  *)
(***************************************************************************)

\* the numbers of tokens of a line: fewer than the hash fields need, fewer
\* than the target width, the target width, the columns of the table, more
Widths == {1, 20, TargetWidth - 1, TargetWidth, Len(WideColumns), Len(WideColumns) + 1}

\* a READERWARE line with n values: the first n of the row of a book, and
\* NULL past the columns of the table
WidthInsert(n, vals) ==
    Line("rw", "READERWARE",
         << ValueList([i \in 1..n |->
                         IF i <= Len(WideColumns) /\ WideColumns[i] \in DOMAIN vals
                         THEN vals[WideColumns[i]] ELSE SNull]) >>,
         TRUE)

WidthBook(k, title) == BookValues(SInt(k), SText(title), SText(Isbn1), SInt(412))

WidthFileLists ==
    UNION { { << [lines |-> << ReaderwareCreate(WideColumns),
                              WidthInsert(n, WidthBook(1, t)) >>] >> : n \in Widths }
            \cup
            { << [lines |-> << ReaderwareCreate(WideColumns),
                              WidthInsert(n, WidthBook(1, t)),
                              WidthInsert(m, WidthBook(2, t)) >>] >> :
                  n \in Widths, m \in Widths } :
            t \in {Dune, OBrien} }

WidthInit ==
    /\ files \in WidthFileLists
    /\ ConvStart

SpecWidth == WidthInit /\ [][ConvNext]_vars

\* the READERWARE lines processed so far
ReaderwareEntries == { p \in 1..Len(processed) : processed[p].table = "READERWARE" }

\* the last three values of the row are the import timestamp, a content hash
\* and the provenance label
BookkeepingAppended(readyRow) ==
    LET n == Len(readyRow)
    IN  /\ n >= 3
        /\ readyRow[n - 2] = StrV(import_time)
        /\ readyRow[n - 1].t = "str"
        /\ readyRow[n] = StrV(provenance)

\* C25: the row of every READERWARE line, whatever its number of tokens, has
\* the fixed target width of 69 values and then the three bookkeeping values
\* appended, and so as many values as the READERWARE column list has names.
RowWidthFixed ==
    \A p \in ReaderwareEntries :
        /\ Len(processed[p].readyRow) = TargetWidth + 3
        /\ BookkeepingAppended(processed[p].readyRow)
        /\ Len(processed[p].readyRow) = Len(processed[p].columns)

\* the same for the lines that have at least as many tokens as the target width
LongRowWidthFixed ==
    \A p \in ReaderwareEntries :
        Len(processed[p].tokens) >= TargetWidth
            => /\ Len(processed[p].readyRow) = TargetWidth + 3
               /\ BookkeepingAppended(processed[p].readyRow)
               /\ Len(processed[p].readyRow) = Len(processed[p].columns)

-----------------------------------------------------------------------------
(* Row Engine: the content hash of rows that lack a hash field             *)
(***************************************************************************)

\* the READERWARE lines that reached the hash step: their table has a schema
\* and the tokenizer gave their values
HashedEntries ==
    { p \in ReaderwareEntries : processed[p].columns # <<>> /\ processed[p].tokens # <<>> }

\* the number of values the row has when it is hashed
ShapedLen(e) == IF Len(e.tokens) < TargetWidth THEN Len(e.tokens) ELSE TargetWidth

\* the row of the line has a value at the column of the hash field
HasField(e, f) == \E i \in 1..ShapedLen(e) : i <= Len(e.columns) /\ e.columns[i] = f

\* what the hash field contributes: the empty string when the field is null
\* or missing
FieldPart(e, f) ==
    IF ~HasField(e, f) THEN <<>>
    ELSE LET val == e.readyRow[IndexOf(e.columns, f).v + 1]
         IN  IF val = None THEN <<>> ELSE PyStr(val)

\* the row ends with the three bookkeeping values, the hash being the one of
\* the projection with the empty string for null and missing fields
HashedWithPlaceholders(e) ==
    /\ Len(e.readyRow) = ShapedLen(e) + 3
    /\ e.readyRow[Len(e.readyRow) - 1]
          = Sha1Hex(Join([k \in 1..3 |-> FieldPart(e, FIELDS_FOR_HASH[k])], <<"|", "|">>))

\* C26: every READERWARE row is hashed, a null or missing hash field
\* contributing the empty string, and the hash step does not keep the row
\* from being inserted.
HashNeverAborts ==
    \A p \in HashedEntries :
        /\ HashedWithPlaceholders(processed[p])
        /\ (\E f \in {"TITLE", "ISBN", "PAGES"} : ~HasField(processed[p], f))
              => processed[p].inserted

\* the same for the rows that have a value, null or not, at every hash field
NullFieldsHashed ==
    \A p \in HashedEntries :
        (\A f \in {"TITLE", "ISBN", "PAGES"} : HasField(processed[p], f))
            => HashedWithPlaceholders(processed[p])

\* a row with a null hash field was hashed and inserted
NullFieldRowInserted ==
    \E p \in HashedEntries :
        /\ processed[p].inserted
        /\ HasField(processed[p], "ISBN")
        /\ processed[p].readyRow[IndexOf(processed[p].columns, "ISBN").v + 1] = None

-----------------------------------------------------------------------------
(* Row Engine: cover images that the image service cannot recompress       *)
(***************************************************************************)

\* images that decode and an image that does not
JunkImageChoices ==
    { SNull, SBinary(<<"<junk 600>">>), SBinary(<<"<300>">>), SBinary(<<"<1200>">>) }

ImageFileLists ==
    { << [lines |-> << ReaderwareCreate(CompactColumns),
                       ReaderwareInsert(CompactColumns, b) >>] >> :
        b \in CoverBooks(JunkImageChoices) }

ImageInit ==
    /\ files \in ImageFileLists
    /\ ConvStart

SpecImage == ImageInit /\ [][ConvNext]_vars

\* the blob is not an image that can be decoded
Undecodable(img) ==
    img.t = "bytes" /\ ~(Len(img.v) = 1 /\ "run" \in DOMAIN img.v[1] /\ img.v[1].jpeg)

\* the recompressed image of a blob that can be decoded
Recompressed(img, size) == BytesV(<<[thumbnail |-> size, of |-> img.v[1]]>>)

\* the cover field of a row: the recompressed image of the blob selected for
\* it, null when the blob cannot be decoded or none was selected
CoverField(val, from, size) ==
    IF from = None \/ Undecodable(from) THEN val = None
    ELSE val = Recompressed(from, size)

\* the values of the row outside the four image slots are the transformed
\* tokens of the line
OtherValuesKept(e, first) ==
    \A j \in 1..Len(e.tokens) :
        j \notin first..(first + 3)
            => e.readyRow[j] = ApplyTransforms(schemas[e.table].transforms, e.tokens)[j]

\* C27: when a selected cover blob cannot be recompressed its cover field is
\* null, the other cover is recompressed all the same, and the row is
\* inserted with all its other values.
ImageFailureIsolated ==
    cpc = "inserts" =>
        \A i \in Examined :
            LET e == processed[i]
                first == IndexOf(e.columns, "IMAGE1_DATA").v + 1
            IN  (\/ e.smallFrom # None /\ Undecodable(e.smallFrom)
                 \/ e.largeFrom # None /\ Undecodable(e.largeFrom))
                    => /\ CoverField(e.readyRow[first], e.smallFrom, SMALL_COVER)
                       /\ CoverField(e.readyRow[first + 1], e.largeFrom, LARGE_COVER)
                       /\ OtherValuesKept(e, first)
                       /\ e.inserted

\* a row whose small cover could not be recompressed and whose large cover
\* was, stored in the target
OneCoverFailedOtherStored ==
    /\ cpc = "inserts"
    /\ \E i \in Examined :
          LET e == processed[i]
              first == IndexOf(e.columns, "IMAGE1_DATA").v + 1
          IN  /\ e.smallFrom # None /\ Undecodable(e.smallFrom)
              /\ e.largeFrom # None /\ ~Undecodable(e.largeFrom)
              /\ e.readyRow[first] = None
              /\ e.readyRow[first + 1] = Recompressed(e.largeFrom, LARGE_COVER)
              /\ e.inserted
              /\ Len(db["READERWARE"]) = 1

-----------------------------------------------------------------------------
(* merge_books: the counters of the summary line                           *)
(***************************************************************************)

\* the INSERT of the row being processed raised: its hash was not in the
\* target and BOOKS is as it was
InsertFailed == ~HashInTarget /\ target'.books = target.books

\* C28: the counters that the summary line of a source prints start at 0 with
\* the source, and with every row 'inserted' grows by the number of BOOKS rows
\* added, 'skipped' by one when the row is skipped for its hash, and a row
\* whose INSERT raised is counted as an error and not as inserted.
SummaryCounters ==
    [][RowProcessed =>
         /\ inserted' - inserted = Len(target'.books) - Len(target.books)
         /\ skipped' - skipped = (IF HashInTarget THEN 1 ELSE 0)
         /\ InsertFailed => (errors' = errors + 1 /\ inserted' = inserted)]_vars

\* a row whose INSERT raised is counted as an error
InsertErrorsCounted ==
    [][RowProcessed => errors' - errors = (IF InsertFailed THEN 1 ELSE 0)]_vars

\* 'inserted' counts the rows that were not skipped
InsertedCountsAttempts ==
    [][RowProcessed => inserted' - inserted = (IF HashInTarget THEN 0 ELSE 1)]_vars

-----------------------------------------------------------------------------
(* merge_books: step 1, the merge_source columns                           *)
(***************************************************************************)

\* running step 1 again on the target leaves the columns as they are
PrepareAgainChangesNothing ==
    mpc # "prepare" => AlterFrom(target.hasCol, 1) = target.hasCol

\* C29: after step 1 every one of the six lookup tables of the target has the
\* merge_source column, whichever of them had it before, and running the step
\* again changes nothing.
PrepareCompletes ==
    mpc # "prepare" =>
        /\ \A tb \in TableSet : target.hasCol[tb]
        /\ AlterFrom(target.hasCol, 1) = target.hasCol

-----------------------------------------------------------------------------
(* Row Engine: a text through the tokenizer and clean_string               *)
(***************************************************************************)

\* the texts of the lines processed: line, position and the text HSQLDB held
TextValues ==
    UNION { { [i |-> i, k |-> k] :
                k \in { x \in 1..Len(SourceOf(processed[i])) :
                          /\ SourceOf(processed[i])[x].k = "text"
                          /\ x <= Len(processed[i].readyRow) } } :
            i \in 1..Len(processed) }

\* the text has two single quotes in a row
HasQuotePair(t) == \E j \in 1..(Len(t) - 1) : t[j] = Quote /\ t[j + 1] = Quote

\* C30: the value stored in a text column for the literal of a text t, its
\* single quotes doubled and the whole between single quotes, is t itself.
TextRoundTrip ==
    \A x \in TextValues :
        processed[x.i].readyRow[x.k] = StrV(SourceOf(processed[x.i])[x.k].v)

\* the same for the texts that are not empty, are not the word NULL, have no
\* two single quotes in a row and no whitespace at either end
PlainTextRoundTrip ==
    \A x \in TextValues :
        LET t == SourceOf(processed[x.i])[x.k].v
        IN  (t # <<>> /\ t # NullText /\ ~HasQuotePair(t) /\ Strip(t) = t)
                => processed[x.i].readyRow[x.k] = StrV(t)

\* a text of two single quotes in a row is stored with one of them
QuotePairCollapsed ==
    \E x \in TextValues :
        /\ SourceOf(processed[x.i])[x.k].v = <<Quote, ",", Quote, Quote>>
        /\ processed[x.i].readyRow[x.k] = StrV(<<Quote, ",", Quote>>)

====
